---- MODULE Spec2Model ----
(***************************************************************************)
(* Model of the workflow orchestrator (src/orchestrator): the engine's     *)
(* phase loop, the approval manager, the in-memory state manager and the   *)
(* phase / parallel / dependency executors.                                *)
(*                                                                         *)
(* Conventions.  None is modelled by "" for strings, <<>> for messages    *)
(* and 0 for timestamps.  An exception message str(e) is a tuple.  The    *)
(* state manager keeps references: the context object of a project is     *)
(* contexts[ref] and _memory_store maps the project id to that ref.       *)
(* The variable clock is the latest value datetime.utcnow() has returned;  *)
(* it advances when a completion timestamp is taken, so that two           *)
(* completions never carry the same completed_at.                          *)
(* start_workflow is called with fresh project ids only ("Unique project  *)
(* identifier"), so a project has one context object and its ref is the   *)
(* project id.                                                             *)
(***************************************************************************)
EXTENDS Integers, Sequences, FiniteSets, TLC

VARIABLES contexts, memory_store, gates, tasks, clock, faults,
          projects, approval_gates, web_tasks, server, call

\* The orchestrator (src/orchestrator): the engine, its stores and its tasks.
engine_vars == <<contexts, memory_store, gates, tasks, clock, faults>>

\* The web backend (src/web/backend): the projects and approval_gates tables,
\* the background tasks of the orchestration service and the server process.
web_vars == <<projects, approval_gates, web_tasks, server>>

\* One call of a pure function: its arguments and what it produced.
call_vars == <<call>>

vars == <<contexts, memory_store, gates, tasks, clock, faults,
          projects, approval_gates, web_tasks, server, call>>

\* ------------------------------------------------------------------ bounds
NumProjects == 2
MaxTasks == 2
MaxFaults == 1
NumWebProjects == 2
MaxWebTasks == 3
MaxResolverAgents == 3
MaxEdges == 3
MaxBadAgents == 2
MaxRetries == 3
MaxOpenRequests == 1

Projects == 1..NumProjects

\* ------------------------------------------------------- generic helpers
Range(s) == {s[i] : i \in DOMAIN s}

RECURSIVE SumSeq(_)
SumSeq(s) == IF s = <<>> THEN 0 ELSE Head(s) + SumSeq(Tail(s))

\* The lists that enumerate the set S, each id once, in every order.
RECURSIVE ListsOf(_)
ListsOf(S) ==
    IF S = {} THEN {<<>>}
    ELSE UNION {{<<a>> \o l : l \in ListsOf(S \ {a})} : a \in S}

IsPrefix(s, t) == /\ Len(s) <= Len(t)
                  /\ \A i \in 1..Len(s) : s[i] = t[i]

\* ------------------------------------------------- workflow definitions
Phase(name, requires_approval, execution_model, agents, activation_rules) ==
    [name |-> name, requires_approval |-> requires_approval,
     execution_model |-> execution_model, agents |-> agents,
     activation_rules |-> activation_rules]

NoRules == {}
UseMatrix == {"use_activation_matrix"}

ScaffoldingAgents ==
    <<"filesystem_scaffolder", "git_provisioner", "workflow_generator", "jira_provisioner">>

DiscoveryModeWorkflow == <<
    Phase("input", FALSE, "sequential", <<"input_validator">>, NoRules),
    Phase("product_design", TRUE, "sequential", <<"po_agent">>, NoRules),
    Phase("requirements", FALSE, "parallel", <<"requirement_agent">>, NoRules),
    Phase("architecture_design", TRUE, "parallel",
          <<"fullstack_architect", "backend_architect", "frontend_architect",
            "database_architect", "infrastructure_architect", "security_architect",
            "ml_architect", "ai_architect">>, UseMatrix),
    Phase("code_generation", FALSE, "parallel",
          <<"fullstack_developer", "backend_developer", "frontend_developer",
            "aiml_developer">>, UseMatrix),
    Phase("quality", FALSE, "parallel",
          <<"testing_agent", "cicd_agent", "documentation_agent">>, NoRules),
    Phase("scaffolding", FALSE, "dependency_graph", ScaffoldingAgents, NoRules),
    Phase("summary", FALSE, "sequential", <<"summary_reporter">>, NoRules) >>

DirectModeWorkflow == <<
    Phase("input", FALSE, "sequential", <<"spec_validator">>, NoRules),
    Phase("architecture_design", FALSE, "parallel",
          <<"infrastructure_architect", "security_architect">>, NoRules),
    Phase("scaffolding", FALSE, "dependency_graph", ScaffoldingAgents, NoRules),
    Phase("summary", FALSE, "sequential", <<"summary_reporter">>, NoRules) >>

\* Mutant: the mode test inverted.
get_workflow_Swapped(mode) ==
    IF mode = "discovery" THEN DirectModeWorkflow ELSE DiscoveryModeWorkflow

get_workflow(mode) ==
    IF mode = "discovery" THEN DiscoveryModeWorkflow ELSE DirectModeWorkflow

PhaseNames(workflow) == [i \in DOMAIN workflow |-> workflow[i].name]

AllAgentIds ==
    UNION {Range(DiscoveryModeWorkflow[i].agents) : i \in DOMAIN DiscoveryModeWorkflow}
    \cup UNION {Range(DirectModeWorkflow[i].agents) : i \in DOMAIN DirectModeWorkflow}

\* --------------------------------------------------- agents and registry
\* What one activated agent does when its execute() is awaited:
\*   "success"  returns a successful output
\*   "failure"  returns an output whose status is failure
\*   "raise"    raises an exception
\*   "slow"     returns a successful output, but later than the parallel
\*              executor's timeout
AgentBehaviours == {"success", "failure", "raise", "slow"}

ExcMsg(agent_id) == <<"agent error", agent_id>>

AgentReturn(agent_id, behaviour) ==
    IF behaviour = "failure"
    THEN [status |-> "failure", error |-> <<"agent failure", agent_id>>]
    ELSE [status |-> "success", error |-> <<>>]

Put(dict, key, value) ==
    [k \in DOMAIN dict \cup {key} |-> IF k = key THEN value ELSE dict[k]]

Update(dict, other) ==
    [k \in DOMAIN dict \cup DOMAIN other |-> IF k \in DOMAIN other THEN other[k] ELSE dict[k]]

EmptyDict == [k \in {} |-> 0]

\* The value execute_phase produces: either an exception (raised, error) or
\* the returned dict (status, reason, agent_results, errors).
Raised(msg) ==
    [raised |-> TRUE, error |-> msg, status |-> "", reason |-> "",
     agent_results |-> EmptyDict, errors |-> <<>>]

Returned(status, reason, agent_results, errors) ==
    [raised |-> FALSE, error |-> <<>>, status |-> status, reason |-> reason,
     agent_results |-> agent_results, errors |-> errors]

\* -------------------------------------------------- dependency resolver
\* Mutant: git_provisioner does not wait for filesystem_scaffolder.
DEPENDENCIES_GitIndependent ==
    [a \in {"workflow_generator", "jira_provisioner"} |-> <<"git_provisioner">>]
DEPENDENCIES ==
    [a \in {"git_provisioner", "workflow_generator", "jira_provisioner"} |->
        IF a = "git_provisioner" THEN <<"filesystem_scaffolder">> ELSE <<"git_provisioner">>]

DepsOf(dependencies, agent) ==
    IF agent \in DOMAIN dependencies THEN dependencies[agent] ELSE <<>>

\* The (dep, agent) pairs in the order the two nested loops visit them.
RECURSIVE Edges(_, _, _)
Edges(rest, agents, dependencies) ==
    IF rest = <<>> THEN <<>>
    ELSE LET agent == Head(rest)
             deps == SelectSeq(DepsOf(dependencies, agent), LAMBDA d : d \in Range(agents))
         IN [i \in 1..Len(deps) |-> <<deps[i], agent>>] \o Edges(Tail(rest), agents, dependencies)

GraphOf(edges, node) ==
    LET es == SelectSeq(edges, LAMBDA e : e[1] = node)
    IN [i \in 1..Len(es) |-> es[i][2]]

InDegreeOf(edges, node) == Len(SelectSeq(edges, LAMBDA e : e[2] = node))

\* Mutant: a dependent is enqueued as soon as one of its dependencies is done.
RECURSIVE Release_AfterFirstDependency(_, _, _)
Release_AfterFirstDependency(dependents, queue, in_degree) ==
    IF dependents = <<>> THEN [queue |-> queue, in_degree |-> in_degree]
    ELSE LET d == Head(dependents)
             deg == [in_degree EXCEPT ![d] = 0]
         IN Release_AfterFirstDependency(Tail(dependents),
                IF in_degree[d] > 0 THEN Append(queue, d) ELSE queue, deg)

\* for dependent in graph[agent]: in_degree -= 1; enqueue when it reaches 0
RECURSIVE Release(_, _, _)
Release(dependents, queue, in_degree) ==
    IF dependents = <<>> THEN [queue |-> queue, in_degree |-> in_degree]
    ELSE LET d == Head(dependents)
             deg == [in_degree EXCEPT ![d] = @ - 1]
         IN Release(Tail(dependents), IF deg[d] = 0 THEN Append(queue, d) ELSE queue, deg)

\* for _ in range(len(queue)): popleft, append to batch, release dependents
RECURSIVE DrainBatch(_, _, _, _, _)
DrainBatch(queue, n, in_degree, batch, edges) ==
    IF n = 0 THEN [queue |-> queue, in_degree |-> in_degree, batch |-> batch]
    ELSE LET agent == Head(queue)
             rel == Release(GraphOf(edges, agent), Tail(queue), in_degree)
         IN DrainBatch(rel.queue, n - 1, rel.in_degree, Append(batch, agent), edges)

RECURSIVE KahnRounds(_, _, _, _)
KahnRounds(queue, in_degree, batches, edges) ==
    IF queue = <<>> THEN batches
    ELSE LET r == DrainBatch(queue, Len(queue), in_degree, <<>>, edges)
         IN KahnRounds(r.queue, r.in_degree,
                       IF r.batch # <<>> THEN Append(batches, r.batch) ELSE batches, edges)

\* Mutant: the batches are returned without the check of their total size.
resolve_NoCycleCheck(agents, dependencies) ==
    LET edges == Edges(agents, agents, dependencies)
        in_degree == [a \in Range(agents) |-> InDegreeOf(edges, a)]
        queue == SelectSeq(agents, LAMBDA a : in_degree[a] = 0)
    IN [raised |-> FALSE, error |-> <<>>,
        batches |-> KahnRounds(queue, in_degree, <<>>, edges)]

resolve(agents, dependencies) ==
    LET edges == Edges(agents, agents, dependencies)
        in_degree == [a \in Range(agents) |-> InDegreeOf(edges, a)]
        queue == SelectSeq(agents, LAMBDA a : in_degree[a] = 0)
        batches == KahnRounds(queue, in_degree, <<>>, edges)
        total_sorted == SumSeq([i \in DOMAIN batches |-> Len(batches[i])])
    IN IF total_sorted # Len(agents)
       THEN [raised |-> TRUE, error |-> <<"Circular dependency detected in agents">>,
             batches |-> <<>>]
       ELSE [raised |-> FALSE, error |-> <<>>, batches |-> batches]

\* ----------------------------------------------------- parallel executor
\* _execute_with_timeout: what asyncio.gather collects for one launched agent.
execute_with_timeout(agent_id, behaviour) ==
    IF behaviour = "raise" THEN [exception |-> TRUE, value |-> [status |-> "", error |-> ExcMsg(agent_id)]]
    ELSE IF behaviour = "slow"
    THEN [exception |-> FALSE, value |-> [status |-> "failed", error |-> <<"timed out", agent_id>>]]
    ELSE [exception |-> FALSE, value |-> AgentReturn(agent_id, behaviour)]

\* for i, result in enumerate(results): agent_id = agent_ids[i]
RECURSIVE CollectResults(_, _, _, _, _)
CollectResults(i, results, agent_ids, agent_results, errors) ==
    IF i > Len(results) THEN [agent_results |-> agent_results, errors |-> errors]
    ELSE LET agent_id == agent_ids[i]
             result == results[i]
         IN IF result.exception
            THEN CollectResults(i + 1, results, agent_ids,
                     Put(agent_results, agent_id, [status |-> "failed", error |-> result.value.error]),
                     Append(errors, <<agent_id, result.value.error>>))
            ELSE CollectResults(i + 1, results, agent_ids,
                     Put(agent_results, agent_id, result.value), errors)

execute_parallel(agent_ids, registry, behaviour) ==
    LET launched == SelectSeq(agent_ids, LAMBDA a : a \in registry)
        results == [i \in 1..Len(launched) |-> execute_with_timeout(launched[i], behaviour[launched[i]])]
        c == CollectResults(1, results, agent_ids, EmptyDict, <<>>)
    IN IF launched = <<>>
       THEN Returned("completed", "", EmptyDict, <<>>)
       ELSE Returned(IF c.errors = <<>> THEN "completed" ELSE "partial_failure",
                     "", c.agent_results, c.errors)

\* -------------------------------------------------------- phase executor
MatrixRow(project_type) ==
    CASE project_type = "api" ->
           [architecture_design |-> <<"backend_architect", "database_architect",
                                      "infrastructure_architect", "security_architect">>,
            code_generation |-> <<"backend_developer">>]
      [] project_type = "ml-project" ->
           [architecture_design |-> <<"fullstack_architect", "backend_architect",
                                      "database_architect", "infrastructure_architect",
                                      "ml_architect">>,
            code_generation |-> <<"backend_developer", "aiml_developer">>]
      [] project_type = "ai-app" ->
           [architecture_design |-> <<"fullstack_architect", "backend_architect",
                                      "frontend_architect", "database_architect",
                                      "infrastructure_architect", "security_architect",
                                      "ai_architect">>,
            code_generation |-> <<"fullstack_developer", "aiml_developer">>]
      [] project_type = "full-platform" ->
           [architecture_design |-> <<"fullstack_architect", "backend_architect",
                                      "frontend_architect", "database_architect",
                                      "infrastructure_architect", "security_architect",
                                      "ml_architect", "ai_architect">>,
            code_generation |-> <<"fullstack_developer", "backend_developer",
                                  "frontend_developer", "aiml_developer">>]
      [] OTHER ->
           [architecture_design |-> <<"fullstack_architect", "backend_architect",
                                      "frontend_architect", "database_architect",
                                      "infrastructure_architect", "security_architect">>,
            code_generation |-> <<"fullstack_developer", "backend_developer",
                                  "frontend_developer">>]

filter_by_activation_matrix(agents, project_type, phase_name) ==
    LET matrix == MatrixRow(project_type)
        activated == IF phase_name \in DOMAIN matrix THEN matrix[phase_name] ELSE <<>>
    IN SelectSeq(agents, LAMBDA a : a \in Range(activated))

get_activated_agents(phase, input_data) ==
    IF phase.activation_rules = {} THEN phase.agents
    ELSE IF "use_activation_matrix" \in phase.activation_rules
    THEN LET project_type ==
                 IF input_data.project_type # "" THEN input_data.project_type
                 ELSE IF input_data.project_type_hint # "" THEN input_data.project_type_hint
                 ELSE "web-app"
         IN filter_by_activation_matrix(phase.agents, project_type, phase.name)
    ELSE phase.agents

RECURSIVE SequentialLoop(_, _, _, _)
SequentialLoop(agents, registry, behaviour, results) ==
    IF agents = <<>> THEN Returned("completed", "", results, <<>>)
    ELSE LET agent_id == Head(agents)
         IN IF agent_id \notin registry
            THEN SequentialLoop(Tail(agents), registry, behaviour, results)
            ELSE IF behaviour[agent_id] = "raise" THEN Raised(ExcMsg(agent_id))
            ELSE SequentialLoop(Tail(agents), registry, behaviour,
                     Put(results, agent_id, AgentReturn(agent_id, behaviour[agent_id])))

execute_sequential(agents, registry, behaviour) ==
    SequentialLoop(agents, registry, behaviour, EmptyDict)

RECURSIVE BatchLoop(_, _, _, _, _)
BatchLoop(execution_order, agents, registry, behaviour, results) ==
    IF execution_order = <<>> THEN Returned("completed", "", results, <<>>)
    ELSE LET batch_agents == SelectSeq(Head(execution_order), LAMBDA a : a \in Range(agents))
             batch_result == execute_parallel(batch_agents, registry, behaviour)
         IN BatchLoop(Tail(execution_order), agents, registry, behaviour,
                      IF batch_agents # <<>> THEN Update(results, batch_result.agent_results)
                      ELSE results)

execute_dependency_graph(agents, registry, behaviour) ==
    LET execution_order == resolve(agents, DEPENDENCIES)
    IN IF execution_order.raised THEN Raised(execution_order.error)
       ELSE BatchLoop(execution_order.batches, agents, registry, behaviour, EmptyDict)

\* Mutant: no early return for an empty list of activated agents.
execute_phase_NoSkip(phase, input_data, registry, behaviour) ==
    LET agents == get_activated_agents(phase, input_data)
    IN IF phase.execution_model = "sequential"
       THEN execute_sequential(agents, registry, behaviour)
       ELSE IF phase.execution_model = "parallel"
       THEN execute_parallel(agents, registry, behaviour)
       ELSE IF phase.execution_model = "dependency_graph"
       THEN execute_dependency_graph(agents, registry, behaviour)
       ELSE Raised(<<"Unknown execution model", phase.execution_model>>)

execute_phase(phase, input_data, registry, behaviour) ==
    LET agents == get_activated_agents(phase, input_data)
    IN IF agents = <<>> THEN Returned("skipped", "no_activated_agents", EmptyDict, <<>>)
       ELSE IF phase.execution_model = "sequential"
       THEN execute_sequential(agents, registry, behaviour)
       ELSE IF phase.execution_model = "parallel"
       THEN execute_parallel(agents, registry, behaviour)
       ELSE IF phase.execution_model = "dependency_graph"
       THEN execute_dependency_graph(agents, registry, behaviour)
       ELSE Raised(<<"Unknown execution model", phase.execution_model>>)

\* ------------------------------------------------- domain expert detector
\* The free text of input_data is abstracted to keyword_matches: for each
\* domain, how many of its keywords occur in the text as whole words.
DomainOrder ==
    <<"healthcare", "finance", "ecommerce", "edtech", "iot", "gaming", "social",
      "legaltech", "logistics", "hrtech">>

KeywordCount(domain) ==
    CASE domain = "healthcare" -> 16
      [] domain = "finance" -> 17
      [] domain \in {"ecommerce", "edtech"} -> 14
      [] domain \in {"iot", "social"} -> 12
      [] domain = "gaming" -> 10
      [] OTHER -> 11

CONFIDENCE_THRESHOLD == 30
MAX_EXPERTS == 3

\* round(min(matches / (len(keywords) * 0.3), 1.0), 2), in hundredths.
calculate_score(matches, n) ==
    LET num == 1000 * matches
        den == 3 * n
        q == num \div den
        r2 == 2 * (num % den)
        rounded == IF r2 > den \/ (r2 = den /\ q % 2 = 1) THEN q + 1 ELSE q
    IN IF rounded > 100 THEN 100 ELSE rounded

\* list.sort(key=score, reverse=True) is stable: insert after equal scores.
RECURSIVE InsertByScore(_, _)
InsertByScore(sorted, item) ==
    IF sorted = <<>> THEN <<item>>
    ELSE IF Head(sorted)[2] >= item[2] THEN <<Head(sorted)>> \o InsertByScore(Tail(sorted), item)
    ELSE <<item>> \o sorted

RECURSIVE SortByScore(_, _)
SortByScore(items, sorted) ==
    IF items = <<>> THEN sorted
    ELSE SortByScore(Tail(items), InsertByScore(sorted, Head(items)))

detect_domains(keyword_matches) ==
    LET scored == [i \in DOMAIN DomainOrder |->
                     <<DomainOrder[i],
                       calculate_score(IF DomainOrder[i] \in DOMAIN keyword_matches
                                       THEN keyword_matches[DomainOrder[i]] ELSE 0,
                                       KeywordCount(DomainOrder[i]))>>]
        domain_scores == SelectSeq(scored, LAMBDA x : x[2] >= CONFIDENCE_THRESHOLD)
        ordered == SortByScore(domain_scores, <<>>)
    IN SubSeq(ordered, 1, IF Len(ordered) < MAX_EXPERTS THEN Len(ordered) ELSE MAX_EXPERTS)

\* ---------------------------------------------------------- state manager
ExecutionContext(project_id, mode, input_data, activated_experts, started_at) ==
    [project_id |-> project_id, mode |-> mode, input_data |-> input_data,
     activated_experts |-> activated_experts, started_at |-> started_at,
     completed_at |-> 0, status |-> "running", current_phase |-> "",
     completed_phases |-> <<>>, phase_results |-> EmptyDict, error |-> <<>>]

\* Mutant: save_state stores nothing.
save_state_NotStored(store, project_id, ref) == store

\* self._memory_store[context.project_id] = context (a reference)
save_state(store, project_id, ref) == Put(store, project_id, ref)

\* dict.get(key): the value stored under key, 0 (None) if there is none.
dict_get(store, key) == IF key \in DOMAIN store THEN store[key] ELSE 0

load_state(project_id) ==
    IF project_id \in DOMAIN memory_store THEN memory_store[project_id] ELSE 0

\* -------------------------------------------------------- approval manager
\* _pending_approvals in insertion order; a gate's id is its position.
\* Mutant: the search does not compare the project id.
find_pending_gate_AnyProject(gs, project_id) ==
    LET idx == {i \in DOMAIN gs : gs[i].status = "pending"}
    IN IF idx = {} THEN 0 ELSE CHOOSE i \in idx : \A j \in idx : i <= j

find_pending_gate(gs, project_id) ==
    LET idx == {i \in DOMAIN gs : gs[i].project_id = project_id /\ gs[i].status = "pending"}
    IN IF idx = {} THEN 0 ELSE CHOOSE i \in idx : \A j \in idx : i <= j

\* Mutant: the gate is built but never put into _pending_approvals.
create_gate_NotStored(gs, project_id, phase, artifact) == gs

create_gate(gs, project_id, phase, artifact) ==
    Append(gs, [project_id |-> project_id, phase |-> phase, artifact |-> artifact,
                status |-> "pending", feedback |-> ""])

\* Mutant: every pending gate of the project is resolved.
resolve_gate_AllPending(gs, project_id, status, feedback) ==
    [g \in DOMAIN gs |->
        IF gs[g].project_id = project_id /\ gs[g].status = "pending"
        THEN [gs[g] EXCEPT !.status = status, !.feedback = feedback]
        ELSE gs[g]]

resolve_gate(gs, project_id, status, feedback) ==
    LET g == find_pending_gate(gs, project_id)
    IN IF g = 0 THEN gs
       ELSE [gs EXCEPT ![g].status = status, ![g].feedback = feedback]

\* What approve and reject return: True iff a pending gate was found.
resolve_returns(gs, project_id) == find_pending_gate(gs, project_id) # 0

approve(project_id, feedback) ==
    /\ gates' = resolve_gate(gates, project_id, "approved", feedback)
    /\ UNCHANGED <<contexts, memory_store, tasks, clock, faults>>
    /\ UNCHANGED <<web_vars, call_vars>>

reject(project_id, feedback) ==
    /\ gates' = resolve_gate(gates, project_id, "rejected", feedback)
    /\ UNCHANGED <<contexts, memory_store, tasks, clock, faults>>
    /\ UNCHANGED <<web_vars, call_vars>>

\* ---------------------------------------------------- orchestration engine
\* context.workflow: start_workflow sets it to _get_workflow(mode), and the
\* field is kept in the record only for a context built with another
\* workflow definition.
Workflow(context) ==
    IF "workflow" \in DOMAIN context THEN context.workflow ELSE get_workflow(context.mode)

\* The registry of the engine resolves every agent id the workflows name.
RegisteredAgents == AllAgentIds

\* Mutant: the loop does not skip the phases in completed_phases.
NextPhase_NoSkip(context, from) ==
    IF from <= Len(Workflow(context)) THEN from ELSE 0

\* for phase in context.workflow.phases: if phase.name in completed_phases: continue
\* The index of the next phase at or after `from` that is not skipped, 0 if none.
NextPhase(context, from) ==
    LET wf == Workflow(context)
        todo == {i \in from..Len(wf) : wf[i].name \notin Range(context.completed_phases)}
    IN IF todo = {} THEN 0 ELSE CHOOSE i \in todo : \A j \in todo : i <= j

\* The for loop from index `from` up to its next suspension point: either a
\* phase is entered (current_phase set, execute_phase awaited) or the loop
\* falls through and the workflow is completed at time `now`.
RunLoop(context, from, now) ==
    LET i == NextPhase(context, from)
    IN IF i = 0
       THEN [context |-> [context EXCEPT !.status = "completed", !.completed_at = now],
             pc |-> "done", phase |-> 0, outcome |-> "completed",
             exception |-> <<>>, gate |-> FALSE]
       ELSE [context |-> [context EXCEPT !.current_phase = Workflow(context)[i].name],
             pc |-> "executing", phase |-> i, outcome |-> "",
             exception |-> <<>>, gate |-> FALSE]

\* context.phase_results[phase.name] = result; completed_phases.append(phase.name)
RecordResult(context, phase, result) ==
    [context EXCEPT !.phase_results = Put(@, phase.name, result),
                    !.completed_phases = Append(@, phase.name)]

\* Mutant: the loop creates the gate and sets awaiting_approval but does not
\* return; it goes on with the next phase.
AfterPhase_PauseContinues(context, i, result, now) ==
    LET phase == Workflow(context)[i]
    IN IF result.raised
       THEN [context |-> [context EXCEPT !.status = "failed", !.error = result.error],
             pc |-> "done", phase |-> i, outcome |-> "failed",
             exception |-> result.error, gate |-> FALSE]
       ELSE IF phase.requires_approval
       THEN [RunLoop([RecordResult(context, phase, result) EXCEPT !.status = "awaiting_approval"],
                     i + 1, now) EXCEPT !.gate = TRUE]
       ELSE RunLoop(RecordResult(context, phase, result), i + 1, now)

\* Mutant: the except clause records the failing phase as completed and
\* leaves context.error unset.
AfterPhase_FailureRecorded(context, i, result, now) ==
    LET phase == Workflow(context)[i]
    IN IF result.raised
       THEN [context |-> [RecordResult(context, phase, result) EXCEPT !.status = "failed"],
             pc |-> "done", phase |-> i, outcome |-> "failed",
             exception |-> result.error, gate |-> FALSE]
       ELSE IF phase.requires_approval
       THEN [context |-> [RecordResult(context, phase, result) EXCEPT !.status = "awaiting_approval"],
             pc |-> "done", phase |-> i, outcome |-> "paused",
             exception |-> <<>>, gate |-> TRUE]
       ELSE RunLoop(RecordResult(context, phase, result), i + 1, now)

\* What the loop does with the outcome of execute_phase for phase number i:
\* the except clause (status failed, error, re-raise), the pause at an
\* approval gate (gate created, status awaiting_approval, return), or the
\* next iteration.
AfterPhase(context, i, result, now) ==
    LET phase == Workflow(context)[i]
    IN IF result.raised
       THEN [context |-> [context EXCEPT !.status = "failed", !.error = result.error],
             pc |-> "done", phase |-> i, outcome |-> "failed",
             exception |-> result.error, gate |-> FALSE]
       ELSE IF phase.requires_approval
       THEN [context |-> [RecordResult(context, phase, result) EXCEPT !.status = "awaiting_approval"],
             pc |-> "done", phase |-> i, outcome |-> "paused",
             exception |-> <<>>, gate |-> TRUE]
       ELSE RunLoop(RecordResult(context, phase, result), i + 1, now)

\* An asyncio task running _execute_workflow on the context object `ref`;
\* exception is what the task ended with when the loop re-raised.
Task(ref, origin) ==
    [context |-> ref, origin |-> origin, pc |-> "created", phase |-> 0, outcome |-> "",
     exception |-> <<>>]

\* Inputs of start_workflow.
Modes == {"discovery", "direct"}

InputDatas ==
    {[project_type |-> "api", project_type_hint |-> "",
      keyword_matches |-> [d \in {"healthcare", "legaltech"} |-> IF d = "healthcare" THEN 4 ELSE 1]]}

ApproveFeedbacks == {""}
RejectFeedbacks == {"please revise the design"}

\* Mutant: domain detection runs in every mode.
detect_experts_AnyMode(mode, input_data) == detect_domains(input_data.keyword_matches)

\* activated_experts = []; if mode == WorkflowMode.DISCOVERY: detect_domains(...)
detect_experts(mode, input_data) ==
    IF mode = "discovery" THEN detect_domains(input_data.keyword_matches) ELSE <<>>

\* Callers pass a fresh project id; fresh ids are handed out in order.
start_workflow(project_id, mode, input_data) ==
    /\ project_id \notin DOMAIN memory_store
    /\ project_id = Cardinality(DOMAIN memory_store) + 1
    /\ Len(tasks) < MaxTasks
    /\ LET activated_experts == detect_experts(mode, input_data)
           context == ExecutionContext(project_id, mode, input_data, activated_experts, clock)
       IN /\ contexts' = Put(contexts, project_id, context)
          /\ memory_store' = save_state(memory_store, project_id, project_id)
          /\ tasks' = Append(tasks, Task(project_id, "start"))
    /\ UNCHANGED <<gates, clock, faults>>
    /\ UNCHANGED <<web_vars, call_vars>>

\* Raises ValueError, changing nothing, when the project is not in the store.
resume_workflow(project_id) ==
    /\ load_state(project_id) # 0
    /\ Len(tasks) < MaxTasks
    /\ tasks' = Append(tasks, Task(load_state(project_id), "resume"))
    /\ UNCHANGED <<contexts, memory_store, gates, clock, faults>>
    /\ UNCHANGED <<web_vars, call_vars>>

\* The task created by start_workflow / resume_workflow is scheduled and runs
\* _execute_workflow up to its first suspension point.
execute_workflow_begin(t) ==
    /\ tasks[t].pc = "created"
    /\ LET ref == tasks[t].context
           run == RunLoop(contexts[ref], 1, clock + 1)
       IN /\ contexts' = [contexts EXCEPT ![ref] = run.context]
          /\ memory_store' = save_state(memory_store, run.context.project_id, ref)
          /\ tasks' = [tasks EXCEPT ![t].pc = run.pc, ![t].phase = run.phase,
                                    ![t].outcome = run.outcome]
          /\ clock' = IF run.outcome = "completed" THEN clock + 1 ELSE clock
    /\ UNCHANGED <<gates, faults>>
    /\ UNCHANGED <<web_vars, call_vars>>

\* The agents that may misbehave: one of a sequential phase with a gate, one
\* of a parallel phase of each workflow, and one of the dependency graph.
UnreliableAgents == {"po_agent", "security_architect", "git_provisioner"}

\* How each of them may misbehave. Only the parallel executor puts a
\* timeout on an agent; elsewhere a slow agent is a successful one.
Misbehaviours(agent_id) ==
    CASE agent_id = "po_agent" -> {"failure", "raise"}
      [] agent_id = "security_architect" -> {"raise", "slow"}
      [] OTHER -> {"raise"}

\* The behaviours of the agents of one phase execution: at most `budget`
\* of the activated unreliable agents do not succeed.
Behaviours(agents, budget) ==
    {[a \in AllAgentIds |-> IF a \in DOMAIN kinds THEN kinds[a] ELSE "success"] :
        kinds \in UNION {{k \in [bad -> AgentBehaviours] : \A a \in bad : k[a] \in Misbehaviours(a)} :
                           bad \in {b \in SUBSET (Range(agents) \cap UnreliableAgents) :
                                       Cardinality(b) <= budget}}}

FaultCount(behaviour) == Cardinality({a \in DOMAIN behaviour : behaviour[a] # "success"})

\* execute_phase returns or raises in task t, and _execute_workflow runs on
\* to its next suspension point, its pause at a gate, its completion or its
\* except clause.
execute_workflow_phase_done(t, behaviour) ==
    /\ tasks[t].pc = "executing"
    /\ LET ref == tasks[t].context
           context == contexts[ref]
           phase == Workflow(context)[tasks[t].phase]
           result == execute_phase(phase, context.input_data, RegisteredAgents, behaviour)
           run == AfterPhase(context, tasks[t].phase, result, clock + 1)
       IN /\ contexts' = [contexts EXCEPT ![ref] = run.context]
          /\ memory_store' = save_state(memory_store, context.project_id, ref)
          /\ tasks' = [tasks EXCEPT ![t].pc = run.pc, ![t].phase = run.phase,
                                    ![t].outcome = run.outcome,
                                    ![t].exception = run.exception]
          /\ gates' = IF run.gate
                      THEN create_gate(gates, context.project_id, phase.name, result)
                      ELSE gates
          /\ clock' = IF run.outcome = "completed" THEN clock + 1 ELSE clock
    /\ faults' = faults + FaultCount(behaviour)
    /\ UNCHANGED <<web_vars, call_vars>>

\* The phase whose execute_phase task t is awaiting.
PhaseOf(t) == Workflow(contexts[tasks[t].context])[tasks[t].phase]

\* The orchestrator after construction.
EngineInit ==
    /\ contexts = EmptyDict
    /\ memory_store = EmptyDict
    /\ gates = <<>>
    /\ tasks = <<>>
    /\ clock = 0
    /\ faults = 0

\* The web backend with empty tables and no background task.
WebInit ==
    /\ projects = EmptyDict
    /\ approval_gates = <<>>
    /\ web_tasks = <<>>
    /\ server = "up"

\* No pure function is being called.
NoCall == [op |-> "", pc |-> "idle"]

Init ==
    /\ EngineInit
    /\ WebInit
    /\ call = NoCall

Next ==
    \/ \E p \in Projects, mode \in Modes, input_data \in InputDatas :
          start_workflow(p, mode, input_data)
    \/ \E p \in Projects : resume_workflow(p)
    \/ \E t \in DOMAIN tasks : execute_workflow_begin(t)
    \/ \E t \in {u \in DOMAIN tasks : tasks[u].pc = "executing"} :
          \E behaviour \in Behaviours(
                 get_activated_agents(PhaseOf(t), contexts[tasks[t].context].input_data),
                 MaxFaults - faults) :
             execute_workflow_phase_done(t, behaviour)
    \/ \E p \in Projects, feedback \in ApproveFeedbacks : approve(p, feedback)
    \/ \E p \in Projects, feedback \in RejectFeedbacks : reject(p, feedback)

Spec == Init /\ [][Next]_vars

\* The orchestrator process is restarted: its asyncio tasks are gone, and the
\* new StateManager and ApprovalManager start with the empty dicts their
\* constructors build.
process_restart ==
    /\ memory_store # EmptyDict
    /\ contexts' = EmptyDict
    /\ memory_store' = EmptyDict
    /\ gates' = <<>>
    /\ tasks' = [t \in DOMAIN tasks |-> [tasks[t] EXCEPT !.pc = "done"]]
    /\ UNCHANGED <<clock, faults, web_vars, call_vars>>

RestartNext == Next \/ process_restart

RestartSpec == Init /\ [][RestartNext]_vars

\* --------------------------------- a workflow with phases without agents
\* A workflow definition in which the activation matrix has no row for the
\* phase review (no agent is activated, and the phase requires approval)
\* and the phase audit has no agents at all.
SparseWorkflow == <<
    Phase("input", FALSE, "sequential", <<"input_validator">>, NoRules),
    Phase("review", TRUE, "parallel", <<"security_architect">>, UseMatrix),
    Phase("audit", FALSE, "sequential", <<>>, NoRules),
    Phase("summary", FALSE, "sequential", <<"summary_reporter">>, NoRules) >>

\* The matrix has no row for review whatever the project type is.
SparseInputDatas ==
    {[in EXCEPT !.project_type = t] : in \in InputDatas, t \in {"api", "ml-project", "web-app"}}

\* A context with that workflow has been saved in the state manager, as a
\* caller of save_state does before it calls resume_workflow.
SparseInit ==
    /\ contexts \in {Put(EmptyDict, 1,
                         [k \in DOMAIN ExecutionContext(1, "discovery", in, <<>>, 0) \cup {"workflow"} |->
                             IF k = "workflow" THEN SparseWorkflow
                             ELSE ExecutionContext(1, "discovery", in, <<>>, 0)[k]]) :
                        in \in SparseInputDatas}
    /\ memory_store = save_state(EmptyDict, 1, 1)
    /\ gates = <<>>
    /\ tasks = <<>>
    /\ clock = 0
    /\ faults = 0
    /\ WebInit
    /\ call = NoCall

\* The calls made for that context: resume_workflow, approve and reject, and
\* the steps of the loops.
SparseNext ==
    \/ \E p \in Projects : resume_workflow(p)
    \/ \E t \in DOMAIN tasks : execute_workflow_begin(t)
    \/ \E t \in {u \in DOMAIN tasks : tasks[u].pc = "executing"} :
          \E behaviour \in Behaviours(
                 get_activated_agents(PhaseOf(t), contexts[tasks[t].context].input_data),
                 MaxFaults - faults) :
             execute_workflow_phase_done(t, behaviour)
    \/ \E p \in Projects, feedback \in ApproveFeedbacks : approve(p, feedback)
    \/ \E p \in Projects, feedback \in RejectFeedbacks : reject(p, feedback)

SparseSpec == SparseInit /\ [][SparseNext]_vars

\* ------------------------------------------------------------ web backend
\* The projects table, the approval_gates table and the background tasks
\* that run OrchestrationService.start_workflow / resume_workflow.  A task
\* works on its own session: `project` is the row object it loaded, and a
\* commit writes the columns the task has changed since its last commit
\* (expire_on_commit is off, so the object is not reloaded).  A request
\* handler of the API is one step.
WebProjects == 1..NumWebProjects

DISCOVERY_PHASES ==
    <<"input", "product_design", "architecture_design", "code_generation", "quality",
      "scaffolding", "summary">>

DIRECT_PHASES == <<"input", "validation", "scaffolding", "ci_setup", "summary">>

PhasesOf(mode) == IF mode = "discovery" THEN DISCOVERY_PHASES ELSE DIRECT_PHASES

\* A row of the projects table; product_design and architecture_design are
\* <<>> (None) or the generated design.
Project(mode, status, current_phase, product_design) ==
    [mode |-> mode, status |-> status, current_phase |-> current_phase,
     product_design |-> product_design, architecture_design |-> <<>>]

ProductDesign == <<"product_design">>
ArchitectureDesign == <<"architecture_design">>

\* A row of the approval_gates table.
ApprovalGate(project_id, phase) ==
    [project_id |-> project_id, phase |-> phase, status |-> "pending", feedback |-> ""]

\* A background task that has not finished; project is the row object of
\* its session, 0 before the task has loaded it.
BackgroundTask(project_id, op) ==
    [project_id |-> project_id, op |-> op, pc |-> "scheduled", project |-> 0]

\* session.commit(): UPDATE of the columns whose value the session changed.
Flush(row, loaded, modified) ==
    [f \in DOMAIN row |-> IF modified[f] # loaded[f] THEN modified[f] ELSE row[f]]

\* The sequence without its element i.
RemoveAt(s, i) == SubSeq(s, 1, i - 1) \o SubSeq(s, i + 1, Len(s))

\* The step of task t that leaves its session object as `modified`, commits
\* and goes on to pc; a task that is done is no longer there.
CommitStep(t, loaded, modified, pc) ==
    LET p == web_tasks[t].project_id
    IN /\ projects' = [projects EXCEPT ![p] = Flush(projects[p], loaded, modified)]
       /\ web_tasks' = IF pc = "done" THEN RemoveAt(web_tasks, t)
                       ELSE [web_tasks EXCEPT ![t].project = modified, ![t].pc = pc]
       /\ UNCHANGED approval_gates

\* The application is serving requests and running background tasks, and
\* the step is not a start of the server process.
Serving == server = "up" /\ UNCHANGED server

\* POST /projects: the row is created pending in phase input and
\* start_workflow is added as a background task.
create_project(mode) ==
    LET id == Cardinality(DOMAIN projects) + 1
    IN /\ id \in WebProjects
       /\ Len(web_tasks) < MaxWebTasks
       /\ projects' = Put(projects, id, Project(mode, "pending", "input", <<>>))
       /\ web_tasks' = Append(web_tasks, BackgroundTask(id, "start_workflow"))
       /\ UNCHANGED <<approval_gates, engine_vars, call_vars>>
       /\ Serving

\* The fixture of the API tests: a discovery project awaiting approval of its
\* product design, with a pending gate row.
sample_project_awaiting_approval ==
    LET id == Cardinality(DOMAIN projects) + 1
    IN /\ id \in WebProjects
       /\ projects' = Put(projects, id,
                          Project("discovery", "awaiting_approval", "product_design",
                                  ProductDesign))
       /\ approval_gates' = Append(approval_gates, ApprovalGate(id, "product_design"))
       /\ UNCHANGED <<web_tasks, engine_vars, call_vars>>
       /\ Serving

\* start_workflow up to its first commit: status executing, phase phases[1].
svc_start_workflow_begin(t) ==
    /\ web_tasks[t].op = "start_workflow"
    /\ web_tasks[t].pc = "scheduled"
    /\ LET project == projects[web_tasks[t].project_id]
           phases == PhasesOf(project.mode)
       IN CommitStep(t, project,
                     [project EXCEPT !.status = "executing", !.current_phase = phases[2]],
                     IF project.mode = "discovery" THEN "generating_product_design"
                     ELSE "completing")
    /\ UNCHANGED <<engine_vars, call_vars>>
    /\ Serving

\* start_workflow after the product design has been generated (discovery) or
\* after its first commit (direct).
svc_start_workflow_finish(t) ==
    /\ web_tasks[t].op = "start_workflow"
    /\ web_tasks[t].pc \in {"generating_product_design", "completing"}
    /\ LET project == web_tasks[t].project
       IN IF web_tasks[t].pc = "generating_product_design"
          THEN CommitStep(t, project,
                          [project EXCEPT !.status = "awaiting_approval",
                                          !.current_phase = "product_design",
                                          !.product_design = ProductDesign],
                          "done")
          ELSE CommitStep(t, project,
                          [project EXCEPT !.status = "completed", !.current_phase = "summary"],
                          "done")
    /\ UNCHANGED <<engine_vars, call_vars>>
    /\ Serving

\* phases[current_idx + 1], or summary at the end of the list or when
\* current_phase is not in the list.
next_phase(project) ==
    LET phases == PhasesOf(project.mode)
        idx == {i \in DOMAIN phases : phases[i] = project.current_phase}
    IN IF idx = {} THEN "summary"
       ELSE LET current_idx == CHOOSE i \in idx : \A j \in idx : i <= j
            IN IF current_idx + 1 <= Len(phases) THEN phases[current_idx + 1] ELSE "summary"

\* resume_workflow up to its first commit.
svc_resume_workflow_begin(t) ==
    /\ web_tasks[t].op = "resume_workflow"
    /\ web_tasks[t].pc = "scheduled"
    /\ LET project == projects[web_tasks[t].project_id]
           next == next_phase(project)
       IN IF next = "architecture_design"
          THEN CommitStep(t, project,
                          [project EXCEPT !.status = "executing", !.current_phase = next],
                          "generating_architecture_design")
          ELSE IF next = "code_generation"
          THEN CommitStep(t, project,
                          [project EXCEPT !.status = "executing", !.current_phase = next],
                          "sleeping")
          ELSE IF next \in {"quality", "scaffolding"}
          THEN CommitStep(t, project,
                          [project EXCEPT !.status = "executing",
                                          !.current_phase = "scaffolding"],
                          "scaffolding")
          ELSE IF next = "summary"
          THEN CommitStep(t, project,
                          [project EXCEPT !.status = "completed", !.current_phase = "summary"],
                          "done")
          ELSE CommitStep(t, project,
                          [project EXCEPT !.status = "executing", !.current_phase = next],
                          "done")
    /\ UNCHANGED <<engine_vars, call_vars>>
    /\ Serving

\* resume_workflow at its later commits: the architecture design has been
\* generated, the sleep is over, or scaffold_project has returned or raised.
svc_resume_workflow_step(t) ==
    /\ web_tasks[t].op = "resume_workflow"
    /\ web_tasks[t].pc \in {"generating_architecture_design", "sleeping", "scaffolding"}
    /\ LET project == web_tasks[t].project
       IN IF web_tasks[t].pc = "generating_architecture_design"
          THEN CommitStep(t, project,
                          [project EXCEPT !.status = "awaiting_approval",
                                          !.architecture_design = ArchitectureDesign],
                          "done")
          ELSE IF web_tasks[t].pc = "sleeping"
          THEN CommitStep(t, project, [project EXCEPT !.current_phase = "scaffolding"],
                          "scaffolding")
          ELSE CommitStep(t, project,
                          [project EXCEPT !.status = "completed", !.current_phase = "summary"],
                          "done")
    /\ UNCHANGED <<engine_vars, call_vars>>
    /\ Serving

\* The pending gate row of the project, 0 if there is none.
pending_gate_row(project_id) ==
    LET idx == {g \in DOMAIN approval_gates :
                   /\ approval_gates[g].project_id = project_id
                   /\ approval_gates[g].status = "pending"}
    IN IF idx = {} THEN 0 ELSE CHOOSE g \in idx : \A h \in idx : g <= h

resolve_gate_row(project_id, status, feedback) ==
    LET gate == pending_gate_row(project_id)
    IN IF gate = 0 THEN approval_gates
       ELSE [approval_gates EXCEPT ![gate].status = status, ![gate].feedback = feedback]

\* POST /projects/{id}/approve: 404 for an unknown project, 400 unless the
\* project is awaiting approval; else the pending gate row (if any) is
\* approved, the status becomes executing and resume_workflow is scheduled.
approve_phase(project_id, feedback) ==
    /\ project_id \in DOMAIN projects
    /\ projects[project_id].status = "awaiting_approval"
    /\ Len(web_tasks) < MaxWebTasks
    /\ approval_gates' = resolve_gate_row(project_id, "approved", feedback)
    /\ projects' = [projects EXCEPT ![project_id].status = "executing"]
    /\ web_tasks' = Append(web_tasks, BackgroundTask(project_id, "resume_workflow"))
    /\ UNCHANGED <<engine_vars, call_vars>>
    /\ Serving

\* POST /projects/{id}/reject: the same checks; the pending gate row (if any)
\* is rejected and the status becomes designing.
reject_phase(project_id, feedback) ==
    /\ project_id \in DOMAIN projects
    /\ projects[project_id].status = "awaiting_approval"
    /\ approval_gates' = resolve_gate_row(project_id, "rejected", feedback)
    /\ projects' = [projects EXCEPT ![project_id].status = "designing"]
    /\ UNCHANGED <<web_tasks, engine_vars, call_vars>>
    /\ Serving

\* DELETE /projects/{id}: 400 for a completed or cancelled project; else the
\* status becomes cancelled.
cancel_project(project_id) ==
    /\ project_id \in DOMAIN projects
    /\ projects[project_id].status \notin {"completed", "cancelled"}
    /\ projects' = [projects EXCEPT ![project_id].status = "cancelled"]
    /\ UNCHANGED <<approval_gates, web_tasks, engine_vars, call_vars>>
    /\ Serving

WebNext ==
    \/ \E mode \in Modes : create_project(mode)
    \/ sample_project_awaiting_approval
    \/ \E t \in DOMAIN web_tasks : svc_start_workflow_begin(t)
    \/ \E t \in DOMAIN web_tasks : svc_start_workflow_finish(t)
    \/ \E t \in DOMAIN web_tasks : svc_resume_workflow_begin(t)
    \/ \E t \in DOMAIN web_tasks : svc_resume_workflow_step(t)
    \/ \E p \in WebProjects, feedback \in ApproveFeedbacks : approve_phase(p, feedback)
    \/ \E p \in WebProjects, feedback \in RejectFeedbacks : reject_phase(p, feedback)
    \/ \E p \in WebProjects : cancel_project(p)

WebSpec == Init /\ [][WebNext]_vars

\* ------------------------------------------- overlapping approve requests
\* approve_phase is a coroutine with a session of its own, and it awaits the
\* database between its status check and its commit: other requests and
\* background tasks run in between.  A request in flight is kept with the
\* background tasks; project is the row it has loaded.
approve_phase_check(project_id) ==
    /\ project_id \in DOMAIN projects
    /\ projects[project_id].status = "awaiting_approval"
    /\ Len(web_tasks) < MaxWebTasks
    /\ Cardinality({t \in DOMAIN web_tasks : web_tasks[t].op = "approve_phase"}) < MaxOpenRequests
    /\ web_tasks' = Append(web_tasks,
                           [BackgroundTask(project_id, "approve_phase") EXCEPT
                               !.pc = "checked", !.project = projects[project_id]])
    /\ UNCHANGED <<projects, approval_gates, engine_vars, call_vars>>
    /\ Serving

\* The rest of the handler: the pending gate row (if any) is approved, the
\* status is set to executing and committed, resume_workflow is scheduled.
approve_phase_commit(t, feedback) ==
    /\ web_tasks[t].op = "approve_phase"
    /\ web_tasks[t].pc = "checked"
    /\ LET p == web_tasks[t].project_id
           loaded == web_tasks[t].project
       IN /\ approval_gates' = resolve_gate_row(p, "approved", feedback)
          /\ projects' = [projects EXCEPT
                             ![p] = Flush(projects[p], loaded,
                                          [loaded EXCEPT !.status = "executing"])]
          /\ web_tasks' = Append(RemoveAt(web_tasks, t), BackgroundTask(p, "resume_workflow"))
    /\ UNCHANGED <<engine_vars, call_vars>>
    /\ Serving

ApprovalNext ==
    \/ WebNext
    \/ \E p \in WebProjects : approve_phase_check(p)
    \/ \E t \in DOMAIN web_tasks, feedback \in ApproveFeedbacks : approve_phase_commit(t, feedback)

ApprovalSpec == Init /\ [][ApprovalNext]_vars

\* ------------------------------------------- server start and recovery
\* The orders in which select(Project).where(status == EXECUTING) may
\* return its rows (the query has no ORDER BY).
RowOrders(ids) == ListsOf(ids)

\* Mutant: the query selects every project.
stuck_projects_All(rows) == DOMAIN rows

\* select(Project).where(Project.status == ProjectStatus.EXECUTING)
stuck_projects(rows) == {p \in DOMAIN rows : rows[p].status = "executing"}

\* The body of the recovery loop for one row: the row as it is committed,
\* or raised, when the branch evaluates ProjectStatus.CREATED, which is not
\* a member of the enum (AttributeError before anything is assigned).
recover_project(project) ==
    LET current_phase == project.current_phase
        awaiting(phase) == [raised |-> FALSE,
                            row |-> [project EXCEPT !.status = "awaiting_approval",
                                                    !.current_phase = phase]]
        created == [raised |-> TRUE, row |-> project]
    IN IF current_phase = "product_design" THEN created
       ELSE IF current_phase = "architecture_design"
       THEN IF project.product_design # <<>> THEN awaiting("product_design") ELSE created
       ELSE IF current_phase \in {"code_generation", "quality", "scaffolding"}
       THEN IF project.architecture_design # <<>> THEN awaiting("architecture_design")
            ELSE IF project.product_design # <<>> THEN awaiting("product_design")
            ELSE created
       ELSE created

\* for project in stuck_projects: ...; await session.commit()
\* The rows committed so far stay committed when a later row raises.
RECURSIVE RecoveryLoop(_, _)
RecoveryLoop(rows, order) ==
    IF order = <<>> THEN [raised |-> FALSE, rows |-> rows]
    ELSE LET r == recover_project(rows[Head(order)])
         IN IF r.raised THEN [raised |-> TRUE, rows |-> rows]
            ELSE RecoveryLoop([rows EXCEPT ![Head(order)] = r.row], Tail(order))

\* The server process ends (crash, kill or deployment): its background
\* tasks are gone, the tables stay as they were committed.
server_stop ==
    /\ server = "up"
    /\ server' = "stopped"
    /\ web_tasks' = <<>>
    /\ UNCHANGED <<projects, approval_gates, engine_vars, call_vars>>

\* The server process is started: lifespan runs
\* recover_interrupted_workflows before the application serves a request.
\* When the recovery raises, the startup has failed and the process exits.
server_start(order) ==
    /\ server \in {"stopped", "failed"}
    /\ order \in RowOrders(stuck_projects(projects))
    /\ LET recovery == RecoveryLoop(projects, order)
       IN /\ projects' = recovery.rows
          /\ server' = IF recovery.raised THEN "failed" ELSE "up"
    /\ UNCHANGED <<approval_gates, web_tasks, engine_vars, call_vars>>

RecoveryNext ==
    \/ WebNext
    \/ server_stop
    \/ \E order \in UNION {RowOrders(S) : S \in SUBSET WebProjects} : server_start(order)

RecoverySpec == Init /\ [][RecoveryNext]_vars

\* ------------------------------------------- calls of the dependency resolver
\* resolve as a function of its arguments: the agent list is a set of ids in
\* some order, the dependency map has at most MaxEdges entries in its lists.
ResolverUniverse == {ScaffoldingAgents[i] : i \in 1..MaxResolverAgents}

\* The position of an id in the fixed order of the universe.
UniverseIndex(a) == CHOOSE i \in 1..MaxResolverAgents : ScaffoldingAgents[i] = a

\* The elements of S as a list in the order of the universe.
RECURSIVE Sorted(_)
Sorted(S) ==
    IF S = {} THEN <<>>
    ELSE LET a == CHOOSE x \in S : \A y \in S : UniverseIndex(x) <= UniverseIndex(y)
         IN <<a>> \o Sorted(S \ {a})

\* The dependency map whose entries are the pairs <<agent, dependency>> of E.
DependencyMap(E) ==
    [a \in {e[1] : e \in E} |-> Sorted({e[2] : e \in {x \in E : x[1] = a}})]

ResolveInputs ==
    {[agents |-> agents, dependencies |-> DependencyMap(E)] :
        agents \in UNION {ListsOf(S) : S \in SUBSET ResolverUniverse},
        E \in {X \in SUBSET (ResolverUniverse \X ResolverUniverse) : Cardinality(X) <= MaxEdges}}

ResolverInit ==
    /\ EngineInit
    /\ WebInit
    /\ call \in {[op |-> "resolve", pc |-> "called", agents |-> in.agents,
                  dependencies |-> in.dependencies,
                  result |-> [raised |-> FALSE, error |-> <<>>, batches |-> <<>>]] :
                    in \in ResolveInputs}

\* The call returns its batches or raises.
call_resolve ==
    /\ call.op = "resolve"
    /\ call.pc = "called"
    /\ call' = [call EXCEPT !.pc = "returned",
                            !.result = resolve(call.agents, call.dependencies)]
    /\ UNCHANGED <<engine_vars, web_vars>>

ResolverNext == call_resolve

ResolverSpec == ResolverInit /\ [][ResolverNext]_vars

\* resolve on the agents of the scaffolding phase: the four ids in every
\* order, and dependency maps of the shape of DEPENDENCIES, which give an
\* agent at most one dependency.
ScaffoldingOrderInputs ==
    {[agents |-> agents, dependencies |-> [a \in DOMAIN dep |-> <<dep[a]>>]] :
        agents \in ListsOf(Range(ScaffoldingAgents)),
        dep \in UNION {[S -> Range(ScaffoldingAgents)] : S \in SUBSET Range(ScaffoldingAgents)}}

ScaffoldingOrderInit ==
    /\ EngineInit
    /\ WebInit
    /\ call \in {[op |-> "resolve", pc |-> "called", agents |-> in.agents,
                  dependencies |-> in.dependencies,
                  result |-> [raised |-> FALSE, error |-> <<>>, batches |-> <<>>]] :
                    in \in ScaffoldingOrderInputs}

ScaffoldingOrderSpec == ScaffoldingOrderInit /\ [][ResolverNext]_vars

\* ------------------------------------------ calls of the parallel executor
\* execute_parallel as a function of its arguments: the agent ids are a set
\* of ids in some order, the registry resolves some of them, and every agent
\* behaves in one of the four ways.
ParallelInputs ==
    {[agent_ids |-> agent_ids, registry |-> registry, behaviour |-> behaviour] :
        agent_ids \in UNION {ListsOf(S) : S \in SUBSET ResolverUniverse},
        registry \in SUBSET ResolverUniverse,
        behaviour \in [ResolverUniverse -> AgentBehaviours]}

ParallelInit ==
    /\ EngineInit
    /\ WebInit
    /\ call \in {[op |-> "execute_parallel", pc |-> "called", agent_ids |-> in.agent_ids,
                  registry |-> in.registry, behaviour |-> in.behaviour,
                  result |-> Returned("", "", EmptyDict, <<>>)] : in \in ParallelInputs}

\* The call returns its result dict.
call_execute_parallel ==
    /\ call.op = "execute_parallel"
    /\ call.pc = "called"
    /\ call' = [call EXCEPT !.pc = "returned",
                            !.result = execute_parallel(call.agent_ids, call.registry,
                                                        call.behaviour)]
    /\ UNCHANGED <<engine_vars, web_vars>>

ParallelNext == call_execute_parallel

ParallelSpec == ParallelInit /\ [][ParallelNext]_vars

\* ------------------------------- one execute_phase call, task by task
\* The phases that launch their agents through the parallel executor.
GatheringPhases ==
    {p \in Range(DiscoveryModeWorkflow) \cup Range(DirectModeWorkflow) :
        p.execution_model \in {"parallel", "dependency_graph"}}

ExecutorInputDatas ==
    {[in EXCEPT !.project_type = t] : in \in InputDatas, t \in {"api", "web-app"}}

\* What the agents of one call do: at most MaxBadAgents of them do not
\* return a successful output.
ExecutorBehaviours(agents) ==
    {[a \in AllAgentIds |-> IF a \in DOMAIN kinds THEN kinds[a] ELSE "success"] :
        kinds \in UNION {[bad -> AgentBehaviours \ {"success"}] :
                           bad \in {b \in SUBSET Range(agents) : Cardinality(b) <= MaxBadAgents}}}

\* tasks = [_execute_with_timeout(agent, ...) for agent_id in agent_ids if agent]
LaunchedTasks(agent_ids, registry) == SelectSeq(agent_ids, LAMBDA a : a \in registry)

\* batch_agents = [a for a in batch if a in agents]
batch_agents(c, i) == SelectSeq(c.execution_order[i], LAMBDA a : a \in Range(c.agents))

\* Mutant: gather without return_exceptions, which returns at the first
\* exception of a task.
gather_done_FirstException(launched, outcome) ==
    \/ \A i \in DOMAIN launched : launched[i] \in DOMAIN outcome
    \/ \E a \in DOMAIN outcome : a \in Range(launched) /\ outcome[a].exception

\* await asyncio.gather(*tasks, return_exceptions=True) returns when every
\* task has produced its value or its exception.
gather_done(launched, outcome) ==
    \A i \in DOMAIN launched : launched[i] \in DOMAIN outcome

\* What gather holds for one task: its value or exception once it has
\* settled, nothing before.
gathered_value(outcome, agent_id) ==
    IF agent_id \in DOMAIN outcome THEN outcome[agent_id]
    ELSE [exception |-> FALSE, value |-> [status |-> "", error |-> <<>>]]

\* The phase executor from batch `from` on: it skips the batches without
\* agents, and it either awaits the gather of the next batch or returns.
RECURSIVE NextGather(_, _)
NextGather(c, from) ==
    IF from > Len(c.execution_order)
    THEN [c EXCEPT !.pc = "returned", !.batch = 0, !.launched = <<>>,
                   !.result = Returned("completed", "", c.results, <<>>)]
    ELSE IF batch_agents(c, from) = <<>> THEN NextGather(c, from + 1)
    ELSE LET launched == LaunchedTasks(batch_agents(c, from), RegisteredAgents)
         IN IF launched = <<>>
            THEN NextGather([c EXCEPT !.results = Update(c.results, EmptyDict)], from + 1)
            ELSE [c EXCEPT !.pc = "gathering", !.batch = from, !.launched = launched]

PhaseCall(phase, input_data, behaviour) ==
    [op |-> "execute_phase", pc |-> "called", phase |-> phase, input_data |-> input_data,
     behaviour |-> behaviour, agents |-> <<>>, execution_order |-> <<>>, batch |-> 0,
     launched |-> <<>>, started |-> <<>>, outcome |-> EmptyDict,
     results |-> EmptyDict, result |-> Returned("", "", EmptyDict, <<>>)]

ExecutorInit ==
    /\ EngineInit
    /\ WebInit
    /\ call \in UNION {{PhaseCall(x[1], x[2], behaviour) :
                            behaviour \in ExecutorBehaviours(get_activated_agents(x[1], x[2]))} :
                         x \in GatheringPhases \X ExecutorInputDatas}

\* execute_phase up to its first await: the activated agents, the resolved
\* execution order and the tasks of the first gather.
execute_phase_begin ==
    /\ call.op = "execute_phase"
    /\ call.pc = "called"
    /\ LET agents == get_activated_agents(call.phase, call.input_data)
           order == resolve(agents, DEPENDENCIES)
           c == [call EXCEPT !.agents = agents]
       IN call' =
            IF agents = <<>>
            THEN [c EXCEPT !.pc = "returned",
                           !.result = Returned("skipped", "no_activated_agents", EmptyDict, <<>>)]
            ELSE IF call.phase.execution_model = "parallel"
            THEN LET launched == LaunchedTasks(agents, RegisteredAgents)
                 IN IF launched = <<>>
                    THEN [c EXCEPT !.pc = "returned",
                                   !.result = Returned("completed", "", EmptyDict, <<>>)]
                    ELSE [c EXCEPT !.pc = "gathering", !.execution_order = <<agents>>,
                                   !.batch = 1, !.launched = launched]
            ELSE IF order.raised
            THEN [c EXCEPT !.pc = "returned", !.result = Raised(order.error)]
            ELSE NextGather([c EXCEPT !.execution_order = order.batches], 1)
    /\ UNCHANGED <<engine_vars, web_vars>>

\* The event loop starts the next task of the gather: the tasks start in
\* the order in which gather created them.
task_start ==
    /\ call.op = "execute_phase"
    /\ call.pc = "gathering"
    /\ LET waiting == SelectSeq(call.launched, LAMBDA a : a \notin Range(call.started))
       IN /\ waiting # <<>>
          /\ call' = [call EXCEPT !.started = Append(@, Head(waiting))]
    /\ UNCHANGED <<engine_vars, web_vars>>

\* A started task settles: its agent returns or raises, or wait_for times
\* it out.
task_settle(agent_id) ==
    /\ call.op = "execute_phase"
    /\ call.pc = "gathering"
    /\ agent_id \in Range(call.started)
    /\ agent_id \notin DOMAIN call.outcome
    /\ call' = [call EXCEPT !.outcome =
                   Put(@, agent_id, execute_with_timeout(agent_id, call.behaviour[agent_id]))]
    /\ UNCHANGED <<engine_vars, web_vars>>

\* gather returns; execute_parallel builds its result, and the phase
\* executor returns it or goes on with the next batch.
gather_return ==
    /\ call.op = "execute_phase"
    /\ call.pc = "gathering"
    /\ gather_done(call.launched, call.outcome)
    /\ LET gathered == [i \in DOMAIN call.launched |->
                           gathered_value(call.outcome, call.launched[i])]
           c == CollectResults(1, gathered, batch_agents(call, call.batch), EmptyDict, <<>>)
           batch_result == Returned(IF c.errors = <<>> THEN "completed" ELSE "partial_failure",
                                    "", c.agent_results, c.errors)
       IN call' =
            IF call.phase.execution_model = "parallel"
            THEN [call EXCEPT !.pc = "returned", !.batch = 0, !.launched = <<>>,
                              !.result = batch_result]
            ELSE NextGather([call EXCEPT !.results = Update(@, batch_result.agent_results)],
                            call.batch + 1)
    /\ UNCHANGED <<engine_vars, web_vars>>

ExecutorNext ==
    \/ execute_phase_begin
    \/ task_start
    \/ \E agent_id \in AllAgentIds : task_settle(agent_id)
    \/ gather_return

ExecutorSpec == ExecutorInit /\ [][ExecutorNext]_vars

\* ------------------------------------- agent runner (src/agents/executor.py)
\* What one agent.run(input_data) under wait_for does:
\*   "success", "failure", "needs_input"  execute returns that status
\*   "bad_status"      execute returns a status validate_output does not know
\*   "raise"           execute raises an Exception
\*   "invalid_input"   validate_input returns False
\*   "validate_raises" validate_input raises, outside the try of run
\*   "slow"            run does not finish within the timeout
RunBehaviours ==
    {"success", "failure", "needs_input", "bad_status", "raise", "invalid_input",
     "validate_raises", "slow"}

\* AgentOutput, and an exception in place of an output (raised).
AgentOutput(status, errors) == [raised |-> FALSE, status |-> status, errors |-> errors]

AgentException(kind, msg) == [raised |-> TRUE, status |-> kind, errors |-> <<msg>>]

\* BaseAgent.run
run(behaviour) ==
    CASE behaviour = "validate_raises" -> AgentException("Exception", "validate_input error")
      [] behaviour = "invalid_input" -> AgentOutput("failure", <<"Invalid input data">>)
      [] behaviour = "raise" -> AgentOutput("failure", <<"execute error">>)
      [] behaviour = "bad_status" -> AgentOutput("bad_status", <<"Output validation failed">>)
      [] behaviour = "failure" -> AgentOutput("failure", <<"agent reported failure">>)
      [] OTHER -> AgentOutput(behaviour, <<>>)

\* asyncio.wait_for(agent.run(input_data), timeout=timeout)
wait_for_run(behaviour) ==
    IF behaviour = "slow" THEN AgentException("TimeoutError", "") ELSE run(behaviour)

\* Mutant: the retry test counts one attempt too many.
attempts_remain_OneMore(attempt, max_retries) == attempt < max_retries

\* if attempt < self.max_retries - 1
attempts_remain(attempt, max_retries) == attempt < max_retries - 1

\* Mutant: without the except clauses the exception leaves execute.
final_outcome_NoExcept(outcome) == outcome

\* What the last attempt makes execute return: the output itself, or the
\* failure built in the except clause.
final_outcome(outcome) ==
    IF ~outcome.raised THEN outcome
    ELSE IF outcome.status = "TimeoutError"
    THEN AgentOutput("failure", <<"Agent timed out after timeout s">>)
    ELSE AgentOutput("failure", outcome.errors)

\* The seconds execute sleeps before the next attempt: the branch of a
\* returned output awaits asyncio.sleep(1 * (attempt + 1)), the two except
\* clauses continue at once.
backoff(outcome, attempt) == IF outcome.raised THEN 0 ELSE 1 * (attempt + 1)

\* What execute does when the agent is not in the registry.
\* claude: "none" (no definition or no client), "ok", "api_error".
execute_unregistered(claude) ==
    CASE claude = "none" -> AgentOutput("failure", <<"Agent not found">>)
      [] claude = "ok" -> AgentOutput("success", <<>>)
      [] OTHER -> AgentOutput("failure", <<"Claude API error">>)

RunnerCall(registered, claude, max_retries) ==
    [op |-> "agent_execute", pc |-> "called", registered |-> registered, claude |-> claude,
     max_retries |-> max_retries, attempt |-> 0, history |-> <<>>, sleeps |-> <<>>,
     result |-> AgentOutput("", <<>>)]

RunnerInit ==
    /\ EngineInit
    /\ WebInit
    /\ call \in {RunnerCall(TRUE, "none", m) : m \in 0..MaxRetries}
                \cup {RunnerCall(FALSE, c, m) : c \in {"none", "ok", "api_error"},
                                                m \in {MaxRetries}}

\* AgentExecutor.execute up to its first attempt.
agent_execute_begin ==
    /\ call.op = "agent_execute"
    /\ call.pc = "called"
    /\ call' = IF ~call.registered
               THEN [call EXCEPT !.pc = "returned", !.result = execute_unregistered(call.claude)]
               ELSE IF call.max_retries <= 0
               THEN [call EXCEPT !.pc = "returned",
                                 !.result = AgentOutput("failure", <<"Max retries exceeded">>)]
               ELSE [call EXCEPT !.pc = "attempting"]
    /\ UNCHANGED <<engine_vars, web_vars>>

\* One pass of the retry loop: the attempt settles, and execute returns,
\* or goes on to the next attempt, or falls out of the loop.
agent_execute_attempt(behaviour) ==
    /\ call.op = "agent_execute"
    /\ call.pc = "attempting"
    /\ LET outcome == wait_for_run(behaviour)
           c == [call EXCEPT !.history = Append(@, behaviour)]
       IN call' =
            IF ~outcome.raised /\ outcome.status = "success"
            THEN [c EXCEPT !.pc = "returned", !.result = outcome]
            ELSE IF attempts_remain(call.attempt, call.max_retries)
            THEN IF call.attempt + 1 < call.max_retries
                 THEN [c EXCEPT !.attempt = @ + 1,
                                !.sleeps = Append(@, backoff(outcome, call.attempt))]
                 ELSE [c EXCEPT !.pc = "returned",
                                !.result = AgentOutput("failure", <<"Max retries exceeded">>)]
            ELSE [c EXCEPT !.pc = "returned", !.result = final_outcome(outcome)]
    /\ UNCHANGED <<engine_vars, web_vars>>

RunnerNext ==
    \/ agent_execute_begin
    \/ \E behaviour \in RunBehaviours : agent_execute_attempt(behaviour)

RunnerSpec == RunnerInit /\ [][RunnerNext]_vars

\* ------------------------------------------------------------- properties
PhaseIndex(context, name) ==
    CHOOSE i \in DOMAIN Workflow(context) : Workflow(context)[i].name = name

TasksOf(project_id) == {t \in DOMAIN tasks : tasks[t].context = project_id}

\* In this step task t starts executing phase number i of its workflow.
StartsPhase(t, i) ==
    /\ tasks'[t].pc = "executing"
    /\ tasks'[t].phase = i
    /\ ~(tasks[t].pc = "executing" /\ tasks[t].phase = i)

\* A gate of the project for a phase before phase number i is pending.
PendingGateBefore(project_id, i) ==
    \E g \in DOMAIN gates :
        /\ gates[g].project_id = project_id
        /\ gates[g].status = "pending"
        /\ PhaseIndex(contexts[project_id], gates[g].phase) < i

\* A task that has ended (paused, completed or failed) never runs again.
EndedTasksStayEnded ==
    \A t \in DOMAIN tasks : tasks[t].pc = "done" => tasks'[t] = tasks[t]

\* C1 (as stated): once a gate has been created for a requires_approval
\* phase, no task starts a later phase of that workflow while the gate is
\* pending, whatever approve, reject and resume_workflow calls are made.
C1_NoLaterPhaseWhilePending ==
    [][\A t \in DOMAIN tasks : \A i \in 1..Len(DiscoveryModeWorkflow) :
          StartsPhase(t, i) => ~PendingGateBefore(tasks[t].context, i)]_vars

\* C1 (amended): the loop that paused at the gate has ended and never runs
\* again, and a later phase starts while the gate is pending only if
\* resume_workflow has been called for the project; resume_workflow does not
\* look at the gate.
C1_LaterPhaseOnlyAfterResume ==
    [][/\ EndedTasksStayEnded
       /\ \A t \in DOMAIN tasks : \A i \in 1..Len(DiscoveryModeWorkflow) :
            (StartsPhase(t, i) /\ PendingGateBefore(tasks[t].context, i))
               => \E u \in TasksOf(tasks[t].context) : tasks[u].origin = "resume"]_vars

\* A project paused at a pending gate by the loop of start_workflow, with no
\* resume_workflow call so far and nothing executing.
C1_Witness ==
    \E p \in DOMAIN contexts :
        /\ \E g \in DOMAIN gates : gates[g].project_id = p /\ gates[g].status = "pending"
        /\ \A t \in TasksOf(p) : /\ tasks[t].origin = "start"
                                 /\ tasks[t].pc = "done"
                                 /\ tasks[t].outcome = "paused"
        /\ TasksOf(p) # {}

\* C2: completed_phases is a prefix of the workflow's phase list (workflow
\* order, no gaps, no duplicates) in every reachable state.
C2_CompletedPhasesIsPrefix ==
    \A p \in DOMAIN contexts :
        IsPrefix(contexts[p].completed_phases, PhaseNames(Workflow(contexts[p])))

PendingGates(project_id) ==
    {g \in DOMAIN gates : gates[g].project_id = project_id /\ gates[g].status = "pending"}

\* C3 (as stated): status is awaiting_approval if and only if exactly one
\* pending gate exists for the project and its phase is current_phase.
C3_AwaitingIffOnePendingGate ==
    \A p \in DOMAIN contexts :
        contexts[p].status = "awaiting_approval"
           <=> /\ Cardinality(PendingGates(p)) = 1
               /\ \A g \in PendingGates(p) : gates[g].phase = contexts[p].current_phase

\* C3 (amended): status is awaiting_approval only if a gate has been created
\* for the project, for a requires_approval phase that is in completed_phases;
\* that gate may be pending, approved or rejected.
C3_AwaitingImpliesGateCreated ==
    \A p \in DOMAIN contexts :
        contexts[p].status = "awaiting_approval"
           => \E g \in DOMAIN gates :
                 /\ gates[g].project_id = p
                 /\ gates[g].phase \in Range(contexts[p].completed_phases)
                 /\ Workflow(contexts[p])[PhaseIndex(contexts[p], gates[g].phase)].requires_approval

\* A project that is awaiting approval although its gate has been resolved.
C3_Witness ==
    \E p \in DOMAIN contexts :
        /\ contexts[p].status = "awaiting_approval"
        /\ PendingGates(p) = {}
        /\ \E g \in DOMAIN gates : gates[g].project_id = p /\ gates[g].status = "rejected"

\* Some task of the project starts executing a phase in this step.
StartsSomePhase(project_id) ==
    \E t \in TasksOf(project_id) : \E i \in 1..Len(DiscoveryModeWorkflow) : StartsPhase(t, i)

TerminalStatuses == {"completed", "failed", "cancelled"}

\* C4: once status is completed, failed or cancelled, no later step executes
\* a phase for the project or changes its status.
C4_TerminalStatusIsFinal ==
    [][\A p \in DOMAIN contexts :
          contexts[p].status \in TerminalStatuses
             => /\ contexts'[p].status = contexts[p].status
                /\ ~StartsSomePhase(p)]_vars

\* C5: status is never awaiting_approval while a phase loop of the project
\* is executing a phase.
C5_NotAwaitingWhileExecuting ==
    \A t \in DOMAIN tasks :
        tasks[t].pc = "executing" => contexts[tasks[t].context].status # "awaiting_approval"

\* C6: when execute_phase raises in a loop, the loop ends with status failed
\* and error equal to the exception's message, the context is in the store,
\* the failing phase is added neither to completed_phases nor to
\* phase_results, and the loop executes nothing afterwards.
C6_RaiseFailsAndStopsLoop ==
    [][/\ EndedTasksStayEnded
       /\ \A t \in DOMAIN tasks :
            (tasks[t].pc = "executing" /\ tasks'[t].exception # <<>>)
               => LET ref == tasks[t].context
                  IN /\ tasks'[t].pc = "done"
                     /\ contexts'[ref].status = "failed"
                     /\ contexts'[ref].error = tasks'[t].exception
                     /\ load_state(contexts[ref].project_id)' = ref
                     /\ contexts'[ref].completed_phases = contexts[ref].completed_phases
                     /\ contexts'[ref].phase_results = contexts[ref].phase_results]_vars

\* A loop that ended in its except clause, its context failed with the error.
C6_Witness ==
    \E t \in DOMAIN tasks :
        /\ tasks[t].outcome = "failed"
        /\ tasks[t].exception # <<>>
        /\ contexts[tasks[t].context].status = "failed"
        /\ contexts[tasks[t].context].error = tasks[t].exception

\* C7: an agent that raises never makes execute_phase raise, so (the
\* built-in phases having a known execution model and an acyclic dependency
\* map) no phase loop ends in its except clause and no workflow fails.
C7_AgentErrorNeverFailsWorkflow ==
    /\ \A t \in DOMAIN tasks : tasks[t].outcome # "failed"
    /\ \A p \in DOMAIN contexts : contexts[p].status # "failed"

\* C8: a phase result with status completed has only successful agents; a
\* phase with an agent that raised, timed out or returned failure is not
\* reported completed.
C8_CompletedPhaseHasNoFailedAgent ==
    \A p \in DOMAIN contexts : \A n \in DOMAIN contexts[p].phase_results :
        LET r == contexts[p].phase_results[n]
        IN r.status = "completed"
              => \A a \in DOMAIN r.agent_results : r.agent_results[a].status = "success"

\* C9: the loop of start_workflow for a discovery workflow, running alone and
\* without an exception, ends paused after input and product_design: status
\* awaiting_approval, current_phase product_design, a pending gate for
\* product_design, and only those two phases executed.
C9_DiscoveryPausesAtProductDesign ==
    [][\A t \in DOMAIN tasks :
          LET p == tasks[t].context
          IN (/\ tasks[t].origin = "start"
              /\ contexts[p].mode = "discovery"
              /\ TasksOf(p) = {t}
              /\ tasks[t].pc # "done"
              /\ tasks'[t].pc = "done"
              /\ tasks'[t].exception = <<>>)
             => /\ tasks'[t].outcome = "paused"
                /\ contexts'[p].status = "awaiting_approval"
                /\ contexts'[p].current_phase = "product_design"
                /\ contexts'[p].completed_phases = <<"input", "product_design">>
                /\ DOMAIN contexts'[p].phase_results = {"input", "product_design"}
                /\ \E g \in DOMAIN gates' :
                      /\ gates'[g].project_id = p
                      /\ gates'[g].phase = "product_design"
                      /\ gates'[g].status = "pending"]_vars

\* A discovery workflow whose only loop has ended at the product_design gate.
C9_Witness ==
    \E p \in DOMAIN contexts :
        /\ contexts[p].mode = "discovery"
        /\ contexts[p].completed_phases = <<"input", "product_design">>
        /\ contexts[p].status = "awaiting_approval"
        /\ Cardinality(TasksOf(p)) = 1
        /\ \A t \in TasksOf(p) : tasks[t].origin = "start" /\ tasks[t].outcome = "paused"

\* C10: a phase-loop run that completes the workflow leaves status completed
\* with completed_phases equal to all phases of the workflow in order and
\* completed_at set.
C10_CompletedRunHasAllPhasesInOrder ==
    \A p \in DOMAIN contexts :
        contexts[p].status = "completed"
           => /\ contexts[p].completed_phases = PhaseNames(Workflow(contexts[p]))
              /\ contexts[p].completed_at # 0

\* C11: resume_workflow on a project whose status is completed changes
\* nothing: the loop it spawns executes no phase and leaves every field of
\* the context (status and completed_at included) as it was.
C11_ResumeOfCompletedChangesNothing ==
    [][\A t \in DOMAIN tasks :
          LET p == tasks[t].context
          IN (/\ tasks[t].origin = "resume"
              /\ tasks[t].pc = "created"
              /\ tasks'[t].pc # "created"
              /\ contexts[p].status = "completed")
             => /\ contexts'[p] = contexts[p]
                /\ tasks'[t].pc = "done"]_vars

\* C12 (as stated): current_phase is not an element of completed_phases in
\* any reachable state.
C12_CurrentPhaseNotCompleted ==
    \A p \in DOMAIN contexts :
        contexts[p].current_phase \notin Range(contexts[p].completed_phases)

\* C12 (amended): when a loop enters a phase it sets current_phase to a phase
\* that is not in completed_phases; the phase is appended to completed_phases
\* when its result is recorded, so when the only loop of a project pauses or
\* completes, current_phase is in completed_phases.
C12_CurrentPhaseNotCompletedWhenEntered ==
    [][\A t \in DOMAIN tasks :
          LET p == tasks[t].context
          IN /\ \A i \in 1..Len(DiscoveryModeWorkflow) :
                  StartsPhase(t, i)
                     => /\ contexts'[p].current_phase = Workflow(contexts'[p])[i].name
                        /\ contexts'[p].current_phase \notin Range(contexts'[p].completed_phases)
             /\ (/\ TasksOf(p) = {t}
                 /\ tasks[t].pc = "executing"
                 /\ tasks'[t].pc = "done"
                 /\ tasks'[t].exception = <<>>)
                => contexts'[p].current_phase \in Range(contexts'[p].completed_phases)]_vars

\* A workflow completed by its only loop: current_phase is its last phase,
\* which is in completed_phases.
C12_Witness ==
    \E p \in DOMAIN contexts :
        /\ contexts[p].status = "completed"
        /\ Cardinality(TasksOf(p)) = 1
        /\ contexts[p].current_phase = "summary"
        /\ contexts[p].current_phase \in Range(contexts[p].completed_phases)

\* C13: a project never has more than one pending gate, because create_gate
\* fails when the project already has one.
C13_AtMostOnePendingGate ==
    \A p \in DOMAIN contexts : Cardinality(PendingGates(p)) <= 1

\* C14: approve and reject return false and change no gate when the project
\* has no pending gate; otherwise they return true and change exactly one
\* gate, a pending gate of that project, to approved (rejected) with the
\* feedback, every other gate staying as it was.
C14_ResolveChangesOnePendingGate ==
    \A p \in Projects : \A status \in {"approved", "rejected"} :
    \A feedback \in ApproveFeedbacks \cup RejectFeedbacks :
        LET after == resolve_gate(gates, p, status, feedback)
            changed == {g \in DOMAIN gates : after[g] # gates[g]}
        IN /\ DOMAIN after = DOMAIN gates
           /\ IF PendingGates(p) = {}
              THEN ~resolve_returns(gates, p) /\ changed = {}
              ELSE /\ resolve_returns(gates, p)
                   /\ Cardinality(changed) = 1
                   /\ \A g \in changed :
                        /\ g \in PendingGates(p)
                        /\ after[g] = [gates[g] EXCEPT !.status = status,
                                                       !.feedback = feedback]

\* One project's gate has been rejected while another project's gate is
\* still pending.
C14_Witness ==
    \E g, h \in DOMAIN gates :
        /\ gates[g].project_id # gates[h].project_id
        /\ gates[g].status = "rejected"
        /\ gates[g].feedback \in RejectFeedbacks
        /\ gates[h].status = "pending"

\* A pending gate row of the project becomes rejected in this step.
GateRowRejected(project_id) ==
    \E g \in DOMAIN approval_gates :
        /\ approval_gates[g].project_id = project_id
        /\ approval_gates[g].status = "pending"
        /\ approval_gates'[g].status = "rejected"

\* C15: rejecting the pending gate of a project that is awaiting approval
\* ends the gate's pending status and leaves the project's status at
\* awaiting_approval, through the reject_phase operation of the API as well.
C15_RejectLeavesAwaitingApproval ==
    [][\A p \in DOMAIN projects :
          (projects[p].status = "awaiting_approval" /\ GateRowRejected(p))
             => projects'[p].status = "awaiting_approval"]_vars

\* C16: state checkpointed by save_state survives a restart of the process:
\* a project whose context has been saved can be loaded in every later state.
C16_SavedStateSurvivesRestart ==
    [][\A p \in Projects :
          load_state(p) # 0
             => /\ load_state(p)' # 0
                /\ contexts'[load_state(p)'].project_id = p]_vars

\* C17: save_state(c) followed by load_state(c.project_id) returns c, and the
\* save does not change what load_state returns for any other project id;
\* checked for every reachable store, every project id (stored already or
\* not) and every context object.
C17_SaveThenLoadReturnsSaved ==
    \A p \in Projects : \A ref \in Projects :
        LET store == save_state(memory_store, p, ref)
        IN /\ dict_get(store, p) = ref
           /\ \A q \in Projects \ {p} : dict_get(store, q) = dict_get(memory_store, q)

\* Two projects are in the store, and the first one's context has been saved
\* again after its loop recorded a phase.
C17_Witness ==
    /\ Cardinality(DOMAIN memory_store) = 2
    /\ load_state(1) = 1
    /\ contexts[1].completed_phases # <<>>
    /\ contexts[load_state(2)].project_id = 2

\* The declared dependencies restricted to the agent list of the call: the
\* pairs <<v, u>> with v and u in the list and u in the dependency list of v.
RestrictedDeps ==
    {<<v, u>> \in Range(call.agents) \X Range(call.agents) :
        u \in Range(DepsOf(call.dependencies, v))}

\* The ids reachable from the id `from` along at least one and at most n
\* declared dependencies.
RECURSIVE DependsOnWithin(_, _)
DependsOnWithin(from, n) ==
    IF n = 0 THEN {}
    ELSE LET direct == {e[2] : e \in {x \in RestrictedDeps : x[1] = from}}
         IN direct \cup UNION {DependsOnWithin(u, n - 1) : u \in direct}

HasCycle == \E a \in Range(call.agents) : a \in DependsOnWithin(a, Len(call.agents))

\* The places <<batch, position>> at which the id a occurs in the batches.
PlacesOf(batches, a) ==
    {<<i, j>> \in (DOMAIN batches) \X (1..MaxResolverAgents) :
        j \in DOMAIN batches[i] /\ batches[i][j] = a}

BatchOf(batches, a) == CHOOSE i \in DOMAIN batches : a \in Range(batches[i])

\* C18: for an agent list and a dependency map that is acyclic on it,
\* resolve returns batches in which every id of the list occurs exactly once
\* and nothing else occurs, and every id is in a later batch than each of its
\* declared dependencies in the list (so the ids of one batch do not depend
\* on each other).
C18_BatchesPartitionAndRespectDeps ==
    (call.op = "resolve" /\ call.pc = "returned" /\ ~HasCycle)
       => LET batches == call.result.batches
          IN /\ ~call.result.raised
             /\ \A i \in DOMAIN batches : Range(batches[i]) \subseteq Range(call.agents)
             /\ \A a \in Range(call.agents) : Cardinality(PlacesOf(batches, a)) = 1
             /\ \A e \in RestrictedDeps : BatchOf(batches, e[2]) < BatchOf(batches, e[1])

\* A returned call with two ids in the second batch, both depending on the
\* id of the first batch.
C18_Witness ==
    /\ call.op = "resolve"
    /\ call.pc = "returned"
    /\ ~HasCycle
    /\ Len(call.result.batches) = 2
    /\ Len(call.result.batches[2]) = 2
    /\ Cardinality(RestrictedDeps) = 2

\* C19: resolve raises the circular-dependency error if and only if the
\* dependency map restricted to the agent list has a directed cycle (a
\* self-dependency included).
C19_RaisesIffCycle ==
    (call.op = "resolve" /\ call.pc = "returned")
       => /\ call.result.raised <=> HasCycle
          /\ call.result.raised
                => call.result.error = <<"Circular dependency detected in agents">>

\* A call that raised for a cycle through all three ids, and needs no
\* self-dependency for it.
C19_Witness ==
    /\ call.op = "resolve"
    /\ call.pc = "returned"
    /\ call.result.raised
    /\ Cardinality(RestrictedDeps) = 3
    /\ \A e \in RestrictedDeps : e[1] # e[2]
    /\ \A a \in Range(call.agents) : Range(call.agents) \subseteq DependsOnWithin(a, 3)
    /\ Len(call.agents) = 3

\* C20: in every execution of a workflow all agents of phase i have settled
\* before any agent of phase i+1 starts: at no time are the agents of two
\* different phases of one project's workflow started and not yet settled.
C20_PhasesDoNotOverlap ==
    \A t \in DOMAIN tasks : \A u \in DOMAIN tasks :
        (/\ tasks[t].pc = "executing"
         /\ tasks[u].pc = "executing"
         /\ contexts[tasks[t].context].project_id = contexts[tasks[u].context].project_id)
            => tasks[t].phase = tasks[u].phase

\* The task-by-task executor returns what execute_phase computes in one step.
ExecutorAgreesWithExecutePhase ==
    (call.op = "execute_phase" /\ call.pc = "returned")
       => call.result = execute_phase(call.phase, call.input_data, RegisteredAgents,
                                      call.behaviour)

\* The batch of the execution order that holds the agent.
BatchIndex(agent_id) ==
    CHOOSE i \in DOMAIN call.execution_order : agent_id \in Range(call.execution_order[i])

StartedBefore(a, b) ==
    \E i \in DOMAIN call.started : \E j \in DOMAIN call.started :
        i < j /\ call.started[i] = a /\ call.started[j] = b

\* The agent has started only if the agent `dep` had settled: `dep` has
\* settled by now and was started before it.
RunsStrictlyBefore(dep, agent_id) ==
    agent_id \in Range(call.started)
       => dep \in DOMAIN call.outcome /\ StartedBefore(dep, agent_id)

\* C21: in a dependency_graph phase every agent of batch j has settled
\* before any agent of batch j+1 starts; in the scaffolding phase
\* filesystem_scaffolder runs strictly before git_provisioner, which runs
\* strictly before workflow_generator and jira_provisioner.
C21_BatchesRunInOrder ==
    (call.op = "execute_phase" /\ call.phase.execution_model = "dependency_graph")
       => /\ \A a \in Range(call.started) : \A b \in Range(call.agents) :
                BatchIndex(b) < BatchIndex(a) => b \in DOMAIN call.outcome
          /\ call.phase.name = "scaffolding"
                => /\ RunsStrictlyBefore("filesystem_scaffolder", "git_provisioner")
                   /\ RunsStrictlyBefore("git_provisioner", "workflow_generator")
                   /\ RunsStrictlyBefore("git_provisioner", "jira_provisioner")

\* The scaffolding phase has returned after three gathers, its second one
\* for a git_provisioner that raised.
C21_Witness ==
    /\ call.op = "execute_phase"
    /\ call.phase.name = "scaffolding"
    /\ call.pc = "returned"
    /\ Len(call.execution_order) = 3
    /\ Len(call.started) = 4
    /\ call.outcome["git_provisioner"].exception

\* C22: when one agent of execute_parallel raises or times out, every other
\* launched agent still runs until it returns, raises or hits its own
\* timeout, and execute_parallel returns only after all launched agents have
\* settled: when the gather is left, every launched agent has settled with
\* the outcome of its own execution.
C22_GatherWaitsForAllTasks ==
    [][(/\ call.op = "execute_phase"
        /\ call.pc = "gathering"
        /\ (call'.pc # "gathering" \/ call'.batch # call.batch))
          => \A a \in Range(call.launched) :
                /\ a \in Range(call.started)
                /\ a \in DOMAIN call.outcome
                /\ call.outcome[a] = execute_with_timeout(a, call.behaviour[a])]_vars

\* A gather in which one agent has raised while a slow one is still running
\* and a third one has not settled either.
C22_Witness ==
    /\ call.op = "execute_phase"
    /\ call.pc = "gathering"
    /\ call.phase.execution_model = "parallel"
    /\ \E a \in DOMAIN call.outcome : call.outcome[a].exception
    /\ \E b \in Range(call.started) \ DOMAIN call.outcome : call.behaviour[b] = "slow"
    /\ Cardinality(Range(call.started) \ DOMAIN call.outcome) >= 2

\* The attempt did not end with a successful output.
Unsuccessful(behaviour) == behaviour # "success"

\* C23: AgentExecutor.execute runs the agent at most max_retries times; it
\* returns at once on the first successful attempt, retries an attempt that
\* raised, timed out or returned failure while attempts remain, and after
\* the final attempt returns that attempt's outcome.
C23_RetryPolicy ==
    (call.op = "agent_execute" /\ call.registered)
       => LET n == Len(call.history)
          IN /\ n <= call.max_retries
             /\ \A i \in 1..(n - 1) : Unsuccessful(call.history[i])
             /\ call.pc = "attempting"
                   => n < call.max_retries /\ \A i \in 1..n : Unsuccessful(call.history[i])
             /\ (call.pc = "returned" /\ n > 0)
                   => /\ Unsuccessful(call.history[n]) => n = call.max_retries
                      /\ ~wait_for_run(call.history[n]).raised
                            => call.result = wait_for_run(call.history[n])
                      /\ wait_for_run(call.history[n]).raised
                            => call.result.status = "failure"

\* Three attempts: an exception, a failure output, a timeout, and the call
\* has returned.
C23_Witness ==
    /\ call.op = "agent_execute"
    /\ call.pc = "returned"
    /\ call.max_retries = 3
    /\ call.history = <<"validate_raises", "failure", "slow">>
    /\ call.result.status = "failure"

C25_DirectApiArchitects ==
    \A t \in DOMAIN tasks :
        (/\ tasks[t].pc = "executing"
         /\ contexts[tasks[t].context].mode = "direct"
         /\ contexts[tasks[t].context].input_data.project_type = "api"
         /\ PhaseOf(t).name = "architecture_design")
            => Range(get_activated_agents(PhaseOf(t), contexts[tasks[t].context].input_data))
                  = {"backend_architect", "database_architect",
                     "infrastructure_architect", "security_architect"}

\* C26: for every project started with mode direct, activated_experts is
\* empty in every reachable state, whatever input_data contains.
C26_NoExpertsInDirectMode ==
    \A ref \in DOMAIN contexts :
        contexts[ref].mode = "direct" => contexts[ref].activated_experts = <<>>

\* A direct-mode project whose input would activate experts in discovery
\* mode (as it does for the other project), with its workflow completed.
C26_Witness ==
    \E ref \in DOMAIN contexts : \E other \in DOMAIN contexts :
        /\ contexts[ref].mode = "direct"
        /\ contexts[ref].status = "completed"
        /\ detect_domains(contexts[ref].input_data.keyword_matches) # <<>>
        /\ contexts[other].mode = "discovery"
        /\ contexts[other].input_data = contexts[ref].input_data
        /\ contexts[other].activated_experts # <<>>

\* The step is a start of the server, recover_interrupted_workflows included.
ServerStarts == server # "up"

\* C27: recover_interrupted_workflows never executes a phase (it generates
\* no design, runs no scaffolding and leaves no background task running) and
\* modifies only projects whose status was executing when it started; every
\* other project is left unchanged.
C27_RecoveryOnlyResetsExecuting ==
    [][ServerStarts
         => /\ DOMAIN projects' = DOMAIN projects
            /\ \A p \in DOMAIN projects :
                  /\ projects[p].status # "executing" => projects'[p] = projects[p]
                  /\ projects'[p].product_design \in {projects[p].product_design, <<>>}
                  /\ projects'[p].architecture_design = projects[p].architecture_design
                  /\ projects'[p].status # "completed" \/ projects[p].status = "completed"
            /\ approval_gates' = approval_gates
            /\ web_tasks' = <<>>]_vars

\* After a restart one project, interrupted while its architecture design
\* was generated, is back at the approval of its product design, and another
\* project, which was awaiting approval, is as it was.
C27_Witness ==
    /\ server = "up"
    /\ web_tasks = <<>>
    /\ \E p \in DOMAIN projects : \E g \in DOMAIN approval_gates :
          /\ approval_gates[g].project_id = p
          /\ approval_gates[g].status = "approved"
          /\ projects[p].architecture_design = <<>>
          /\ projects[p].status = "awaiting_approval"
          /\ projects[p].current_phase = "product_design"
    /\ \E p \in DOMAIN projects : \E g \in DOMAIN approval_gates :
          /\ approval_gates[g].project_id = p
          /\ approval_gates[g].status = "pending"
          /\ projects[p].status = "awaiting_approval"

\* C28: after recover_interrupted_workflows has run at startup, no project
\* is left in status executing: every project found executing has been moved
\* to awaiting_approval or back to its initial state.
C28_NoProjectLeftExecuting ==
    [][ServerStarts => \A p \in DOMAIN projects' : projects'[p].status # "executing"]_vars

\* C29: after cancel_project has succeeded for a project, its status is
\* cancelled and remains cancelled: a background task still in flight for
\* the project executes no further phase and never overwrites the status.
C29_CancelledStaysCancelled ==
    [][\A p \in DOMAIN projects :
          projects[p].status = "cancelled"
             => /\ projects'[p].status = "cancelled"
                /\ projects'[p].current_phase = projects[p].current_phase]_vars

\* C30: for each project at most one phase-loop task is active at any time:
\* resume_workflow while a loop of the project is still running does not
\* start a second loop, so no phase is executed by two loops.
C30_AtMostOneActiveLoop ==
    \A t \in DOMAIN tasks : \A u \in DOMAIN tasks :
        (/\ t # u
         /\ contexts[tasks[t].context].project_id = contexts[tasks[u].context].project_id
         /\ tasks[t].pc # "done")
            => tasks[u].pc = "done"

\* How many times the phase executor has invoked execute of the agent.
Invocations(agent_id) ==
    Cardinality({i \in DOMAIN call.started : call.started[i] = agent_id})

\* C31: every agent invocation of a phase is subject to the runner's policy:
\* when execute_phase has returned, an agent whose attempt did not succeed
\* (it failed, raised or ran into the deadline) has been retried, that is,
\* it has been invoked more than once.
C31_FailingAgentIsRetried ==
    (call.op = "execute_phase" /\ call.pc = "returned")
        => \A a \in DOMAIN call.outcome :
              call.behaviour[a] # "success" => Invocations(a) > 1

\* What the result map of execute_parallel holds for an agent that ran: the
\* dict the agent returned, or the failed entry built from its exception.
OutcomeOf(agent_id, behaviour) ==
    LET r == execute_with_timeout(agent_id, behaviour)
    IN IF r.exception THEN [status |-> "failed", error |-> r.value.error] ELSE r.value

\* C32: the keys of the result map of execute_parallel are exactly the ids
\* of the input list that the registry resolves, and each key is mapped to
\* the outcome of that same agent.
C32_ResultsKeyedByResolvedAgents ==
    (call.op = "execute_parallel" /\ call.pc = "returned")
        => /\ DOMAIN call.result.agent_results = Range(call.agent_ids) \cap call.registry
           /\ \A a \in DOMAIN call.result.agent_results :
                 call.result.agent_results[a] = OutcomeOf(a, call.behaviour[a])

\* C33: between two consecutive attempts of AgentExecutor.execute the runner
\* waits base * attempt_index seconds (1 s after the first attempt, 2 s after
\* the second), whatever way the earlier attempt did not succeed.
C33_LinearBackoffAfterEveryAttempt ==
    call.op = "agent_execute"
        => \A i \in DOMAIN call.sleeps : call.sleeps[i] = 1 * i

\* The phase `later` comes after the phase `earlier` in the discovery workflow.
LiesAfter(later, earlier) ==
    \E i \in DOMAIN DISCOVERY_PHASES : \E j \in DOMAIN DISCOVERY_PHASES :
        /\ DISCOVERY_PHASES[i] = earlier
        /\ DISCOVERY_PHASES[j] = later
        /\ i < j

\* C34: the recovery moves a project that was executing to awaiting_approval
\* on the most recent design phase before current_phase whose design is
\* present (architecture_design, otherwise product_design), and, when no
\* design precedes current_phase, back to the phase input with its designs
\* cleared.
C34_RecoveryReentersLastCheckpoint ==
    [][ServerStarts
         => \A p \in stuck_projects(projects) :
               LET old == projects[p]
                   new == projects'[p]
               IN IF /\ LiesAfter(old.current_phase, "architecture_design")
                     /\ old.architecture_design # <<>>
                  THEN new.status = "awaiting_approval" /\ new.current_phase = "architecture_design"
                  ELSE IF /\ LiesAfter(old.current_phase, "product_design")
                          /\ old.product_design # <<>>
                  THEN new.status = "awaiting_approval" /\ new.current_phase = "product_design"
                  ELSE /\ new.status # "executing"
                       /\ new.current_phase = "input"
                       /\ new.product_design = <<>>
                       /\ new.architecture_design = <<>>]_vars

\* The position of an id in the agent list given to resolve.
InputPosition(a) == CHOOSE i \in DOMAIN call.agents : call.agents[i] = a

\* C35: within every batch returned by resolve, the ids appear in the same
\* relative order as in the input agent list.
C35_BatchesKeepInputOrder ==
    (call.op = "resolve" /\ call.pc = "returned" /\ ~call.result.raised)
        => \A b \in DOMAIN call.result.batches :
              \A i \in DOMAIN call.result.batches[b] : \A j \in DOMAIN call.result.batches[b] :
                  i < j => InputPosition(call.result.batches[b][i])
                              < InputPosition(call.result.batches[b][j])

\* C36: the phase loop never executes a phase whose name is in
\* completed_phases, and the phase_results entry of a completed phase is
\* never changed again.
C36_CompletedPhasesAreNotExecutedAgain ==
    [][/\ \A t \in DOMAIN tasks :
             tasks[t].pc = "executing"
                => PhaseOf(t).name \notin Range(contexts[tasks[t].context].completed_phases)
       /\ \A p \in DOMAIN contexts :
             \A name \in Range(contexts[p].completed_phases) :
                 contexts'[p].phase_results[name] = contexts[p].phase_results[name]]_vars

\* The resume_workflow tasks of the project that have been scheduled and
\* have not finished.
ResumesOf(project_id) ==
    {t \in DOMAIN web_tasks :
        web_tasks[t].project_id = project_id /\ web_tasks[t].op = "resume_workflow"}

\* C37: approve_phase takes effect only for a project that is awaiting
\* approval, so that a pause is approved at most once and at most one resume
\* is scheduled for it: a project never has two resume_workflow tasks.
C37_OneResumePerPause ==
    \A p \in DOMAIN projects : Cardinality(ResumesOf(p)) <= 1

\* What execute_phase returns for a phase without activated agents.
SkippedResult == Returned("skipped", "no_activated_agents", EmptyDict, <<>>)

\* C38: a phase for which no agent is activated returns status skipped and
\* no agent result (no agent is looked up or run); the loop records the phase
\* in phase_results and completed_phases, and when the phase requires
\* approval it creates a pending gate with that result and pauses.
C38_SkippedPhaseIsRecordedAndGated ==
    [][\A t \in DOMAIN tasks :
          (/\ tasks[t].pc = "executing"
           /\ tasks'[t] # tasks[t]
           /\ get_activated_agents(PhaseOf(t), contexts[tasks[t].context].input_data) = <<>>)
             => LET p == tasks[t].context
                    phase == PhaseOf(t)
                IN /\ contexts'[p].phase_results[phase.name] = SkippedResult
                   /\ contexts'[p].completed_phases
                         = Append(contexts[p].completed_phases, phase.name)
                   /\ faults' = faults
                   /\ IF phase.requires_approval
                      THEN /\ gates' = Append(gates, [project_id |-> contexts[p].project_id,
                                                      phase |-> phase.name,
                                                      artifact |-> SkippedResult,
                                                      status |-> "pending", feedback |-> ""])
                           /\ contexts'[p].status = "awaiting_approval"
                           /\ tasks'[t].pc = "done"
                           /\ tasks'[t].outcome = "paused"
                      ELSE gates' = gates]_vars

\* A workflow that has completed after its phase review was skipped, gated
\* and approved, and its phase audit was skipped without a gate.
C38_Witness ==
    \E p \in DOMAIN contexts :
        /\ contexts[p].status = "completed"
        /\ contexts[p].completed_phases = <<"input", "review", "audit", "summary">>
        /\ contexts[p].phase_results["review"] = SkippedResult
        /\ contexts[p].phase_results["audit"] = SkippedResult
        /\ \E g \in DOMAIN gates :
              /\ gates[g].project_id = contexts[p].project_id
              /\ gates[g].phase = "review"
              /\ gates[g].artifact = SkippedResult
              /\ gates[g].status = "approved"

\* C39: in every reachable state of a context, error is set if and only if
\* the status is failed, and completed_at is set if and only if the status
\* is completed, also after a failed workflow has been resumed.
C39_ErrorIffFailedCompletedAtIffCompleted ==
    \A p \in DOMAIN contexts :
        /\ contexts[p].error # <<>> <=> contexts[p].status = "failed"
        /\ contexts[p].completed_at # 0 <=> contexts[p].status = "completed"

\* The gates of a project, in the order of their creation.
GatesOf(gs, project_id) == SelectSeq(gs, LAMBDA g : g.project_id = project_id)

\* The step leaves the context and the gates of every other project as
\* they were.
OthersUnchanged(project_id) ==
    \A q \in DOMAIN contexts :
        contexts[q].project_id # project_id
           => /\ contexts'[q] = contexts[q]
              /\ GatesOf(gates', contexts[q].project_id) = GatesOf(gates, contexts[q].project_id)

====
